---------------------------- MODULE Spec2Model ----------------------------
(***************************************************************************)
(* Counting graph homomorphisms G -> H by dynamic programming over a nice  *)
(* tree decomposition of G (guojing0/count-graph-homs).                    *)
(*                                                                         *)
(* One call of a counting entry point is modelled as a state machine:      *)
(*   Construct   validation, tree decomposition, normalisation, labelling  *)
(*   Add*Node    one iteration of the bottom-up loop over the nice TD      *)
(*   Return      reading the root cell                                     *)
(* A Python exception ends the call in pc = "error".                       *)
(***************************************************************************)
EXTENDS Integers, Sequences, FiniteSets, TLC

VARIABLES
    impl,               \* entry point: "basic", "int", "int_pre", "best"
    graph,              \* pattern graph G
    target_graph,       \* target graph H
    density_threshold,  \* option density_threshold, in units of 1/ThresholdDen
    colourful,          \* option colourful
    graph_clr,          \* option graph_clr  (NoneClr when not provided)
    target_clr,         \* option target_clr (NoneClr when not provided)
    tree_decomp,        \* what graph.treewidth(certificate=True) returns
    dir_labelled_TD,    \* the labelled nice tree decomposition
    node_changes_dict,  \* node index -> introduced / forgotten vertex
    DP_table,           \* DP_table[i + 1] is the entry of node index i
    pc,                 \* "entry", "loop", "return", "done", "error"; "idle": no call
    cur,                \* index of the node the loop visits next
    result,             \* the returned count (NoResult until returned)
    error,              \* the exception raised ("none" until raised)
    codec,              \* a use of the mapping codec on its own: the arguments,
                        \* the results so far and the position ("idle": none)
    futures             \* ParallelGraphHomomorphismCounter.futures and the state of
                        \* each node's task under dask.compute

vars == <<impl, graph, target_graph, density_threshold, colourful, graph_clr, target_clr,
          tree_decomp, dir_labelled_TD, node_changes_dict, DP_table,
          pc, cur, result, error, codec, futures>>

-----------------------------------------------------------------------------
(* Bounds of the explored inputs.                                          *)

\* largest |V(G)| of the enumerated pattern graphs
MaxG == 3
\* largest |V(H)| of the enumerated target graphs
MaxH == 3
\* largest number of bags of the enumerated tree decompositions
MaxBags == 2
\* colours 0..MaxClr-1 in the colour lists tried
MaxClr == 2
\* the largest graphs tried with colour lists
MaxClrG == 2
\* a density threshold t stands for the fraction t / ThresholdDen
ThresholdDen == 2
\* the density thresholds tried: 0, 1/2 (the default) and 1
Thresholds == 0..ThresholdDen
\* the default value of the argument density_threshold, 0.5
DefaultThreshold == 1
\* largest base (graph_size) the codec is tried with
MaxBase == 4
\* largest encoded mapping the codec is tried with
MaxMapping == 30
\* largest digit position (index) the codec is tried with
MaxIndex == 3

-----------------------------------------------------------------------------
(* Arithmetic and sequence helpers (Python built-ins).                     *)

RECURSIVE Pow(_, _)
\* Python's b ** e on non-negative integers; 0 ** 0 = 1.
Pow(b, e) == IF e = 0 THEN 1 ELSE b * Pow(b, e - 1)

SetMin(S) == CHOOSE x \in S : \A y \in S : x <= y
SetMax(S) == CHOOSE x \in S : \A y \in S : y <= x

RECURSIVE SetToSeq(_)
\* tuple(s) / list(s) / iteration over a set of small integers: ascending.
SetToSeq(S) == IF S = {} THEN <<>>
               ELSE LET m == SetMin(S) IN <<m>> \o SetToSeq(S \ {m})

\* tuple.index(x), 0-based; the callers only look up members.
IndexOf(seq, x) == (CHOOSE i \in 1..Len(seq) : seq[i] = x) - 1

Range(seq) == {seq[i] : i \in 1..Len(seq)}

RECURSIVE SumSeq(_)
SumSeq(seq) == IF seq = <<>> THEN 0 ELSE seq[1] + SumSeq(Tail(seq))

\* the least integer not already representing a vertex (Sage add_vertex()).
Fresh(V) == SetMin((0..Cardinality(V)) \ V)

-----------------------------------------------------------------------------
(* Graphs: vertices 0 .. n-1, E a set of two-element sets.                 *)

Pairs(n) == {{u, v} : u, v \in 0..(n - 1)} \ {{u} : u \in 0..(n - 1)}

Graphs(n) == {[n |-> n, E |-> E] : E \in SUBSET Pairs(n)}

GraphsUpTo(m) == UNION {Graphs(n) : n \in 0..m}

\* Graph.has_edge(u, v) of a simple graph
has_edge(g, u, v) == {u, v} \in g.E /\ u # v

CompleteGraph(n) == [n |-> n, E |-> Pairs(n)]

\* graphs.CompleteBipartiteGraph(1, 4): the star with centre 0
StarK14 == [n |-> 5, E |-> {{0, 1}, {0, 2}, {0, 3}, {0, 4}}]

-----------------------------------------------------------------------------
(* Tree decompositions as the producer returns them: a Sage Graph whose    *)
(* vertices are the bags.  bag[p + 1] is the bag at position p of the      *)
(* graph's vertex iteration order, E the tree edges between positions.     *)

TDNodes(td) == 0..(Len(td.bag) - 1)

EmptyTD == [bag |-> <<>>, E |-> {}]

RECURSIVE BFSVisit(_, _, _, _)
\* Graph.breadth_first_search(start): the vertices in the order visited
BFSVisit(V, E, queue, seen) ==
    IF queue = <<>> THEN seen
    ELSE LET u  == Head(queue)
             nb == SetToSeq({v \in V : {u, v} \in E /\ v # u
                                        /\ v \notin Range(seen)})
         IN  BFSVisit(V, E, Tail(queue) \o nb, seen \o nb)

breadth_first_search(V, E, start) == BFSVisit(V, E, <<start>>, <<start>>)

Connected(V, E) ==
    V = {} \/ Range(breadth_first_search(V, E, SetMin(V))) = V

\* is_valid_tree_decomposition(graph, tree_decomp)
is_valid_tree_decomposition(g, td) ==
    LET N == TDNodes(td)
    IN  /\ \A e \in td.E : e \subseteq N /\ Cardinality(e) = 2
        /\ (N = {} => g.n = 0)
        /\ (N # {} => Cardinality(td.E) = Cardinality(N) - 1)
        /\ Connected(N, td.E)
        /\ \A v \in 0..(g.n - 1) : \E p \in N : v \in td.bag[p + 1]
        /\ \A p \in N : td.bag[p + 1] \subseteq 0..(g.n - 1)
        /\ \A e \in g.E : \E p \in N : e \subseteq td.bag[p + 1]
        /\ \A v \in 0..(g.n - 1) :
              LET Nv == {p \in N : v \in td.bag[p + 1]}
              IN  Connected(Nv, {e \in td.E : e \subseteq Nv})

-----------------------------------------------------------------------------
(* make_nice_tree_decomposition works on a directed tree:                  *)
(*   V     the vertices (integers)          A    the arcs <<parent, child>> *)
(*   bag   the bag of each vertex           root the root                   *)

neighbors_out(s, u) == SetToSeq({v \in s.V : <<u, v>> \in s.A})

out_degree(s, u) == Cardinality({v \in s.V : <<u, v>> \in s.A})

in_degree(s, u) == Cardinality({v \in s.V : <<v, u>> \in s.A})

RECURSIVE FreshSeq(_, _)
\* c successive calls of add_vertex()
FreshSeq(V, c) == IF c = 0 THEN <<>>
                  ELSE LET f == Fresh(V) IN <<f>> \o FreshSeq(V \cup {f}, c - 1)

\* leaves = [u for u in tree_decomp if tree_decomp.degree(u) <= 1]
TDLeaves(td) ==
    SetToSeq({p \in TDNodes(td) :
                 Cardinality({e \in td.E : p \in e}) <= 1})

\* Step 1: choose a root and orient the edges from root-to-leaves direction;
\* relabel the bags in range 0 .. |tree_decomp| - 1.
Step1(td) ==
    LET leaves == TDLeaves(td)
        rootp  == leaves[Len(leaves)]
        order  == breadth_first_search(TDNodes(td), td.E, rootp)
        int(p) == IndexOf(order, p)
        rest   == IF Len(leaves) = 1 THEN leaves
                  ELSE SubSeq(leaves, 1, Len(leaves) - 1)
    IN  [V      |-> 0..(Len(order) - 1),
         A      |-> {a \in (0..(Len(order) - 1)) \X (0..(Len(order) - 1)) :
                       /\ a[1] < a[2]
                       /\ {order[a[1] + 1], order[a[2] + 1]} \in td.E},
         bag    |-> [i \in 0..(Len(order) - 1) |-> td.bag[order[i + 1] + 1]],
         root   |-> int(rootp),
         leaves |-> [i \in 1..Len(rest) |-> int(rest[i])]]

\* a faulty step 2: the root is added, the leaf nodes are not
Step2_without_leaf_nodes(s) ==
    LET root == Fresh(s.V)
    IN  [V    |-> s.V \cup {root},
         A    |-> s.A \cup {<<root, s.root>>},
         bag  |-> [v \in s.V \cup {root} |-> IF v = root THEN {} ELSE s.bag[v]],
         root |-> root]

\* Step 2: add the root node and the leaf nodes, with empty bags.
Step2(s) ==
    LET root   == Fresh(s.V)
        leafId == [i \in 1..Len(s.leaves) |-> root + i]
        added  == {root} \cup Range(leafId)
    IN  [V    |-> s.V \cup added,
         A    |-> s.A \cup {<<root, s.root>>}
                      \cup {<<s.leaves[i], leafId[i]>> : i \in 1..Len(s.leaves)},
         bag  |-> [v \in s.V \cup added |-> IF v \in added THEN {} ELSE s.bag[v]],
         root |-> root]

\* Step 3, one vertex ui with more than two children.
Step3Node(s, ui) ==
    LET all == neighbors_out(s, ui)
    IN  IF Len(all) <= 2 THEN s
        ELSE LET children  == SubSeq(all, 1, Len(all) - 1)
                 cnt       == Len(children) - 1
                 new_nodes == FreshSeq(s.V, cnt)
                 V2        == s.V \cup Range(new_nodes)
             IN  [V    |-> V2,
                  A    |-> (s.A \ {<<ui, children[i]>> : i \in 1..Len(children)})
                             \cup {<<ui, new_nodes[1]>>}
                             \cup {<<new_nodes[i], new_nodes[i + 1]>> : i \in 1..(cnt - 1)}
                             \cup {<<new_nodes[i], children[i]>> : i \in 1..cnt}
                             \cup {<<new_nodes[cnt], children[cnt + 1]>>},
                  bag  |-> [v \in V2 |-> IF v \in s.V THEN s.bag[v] ELSE s.bag[ui]],
                  root |-> s.root]

RECURSIVE Step3Loop(_, _)
Step3Loop(s, todo) ==
    IF todo = <<>> THEN s
    ELSE Step3Loop(Step3Node(s, Head(todo)), Tail(todo))

\* Step 3: ensure that each node of directed_tree has at most 2 children.
Step3(s) == Step3Loop(s, SetToSeq(s.V))

\* Step 4, one arc (current_node, neighbor).
Step4Arc(s, current_node, neighbor) ==
    IF s.bag[current_node] = s.bag[neighbor] THEN s
    ELSE LET new_node == Fresh(s.V)
         IN  [V    |-> s.V \cup {new_node},
              A    |-> (s.A \ {<<current_node, neighbor>>})
                         \cup {<<current_node, new_node>>, <<new_node, neighbor>>},
              bag  |-> [v \in s.V \cup {new_node} |->
                          IF v = new_node THEN s.bag[current_node] ELSE s.bag[v]],
              root |-> s.root]

RECURSIVE Step4Arcs(_, _, _)
Step4Arcs(s, current_node, nbrs) ==
    IF nbrs = <<>> THEN s
    ELSE Step4Arcs(Step4Arc(s, current_node, Head(nbrs)), current_node, Tail(nbrs))

RECURSIVE Step4Loop(_, _)
Step4Loop(s, todo) ==
    IF todo = <<>> THEN s
    ELSE LET current_node == Head(todo)
         IN  IF out_degree(s, current_node) < 2
             THEN Step4Loop(s, Tail(todo))
             ELSE Step4Loop(Step4Arcs(s, current_node,
                                      neighbors_out(s, current_node)),
                            Tail(todo))

\* Step 4: a vertex with two children has the bag of both of them.
Step4(s) == Step4Loop(s, SetToSeq(s.V))

RECURSIVE AddChain(_, _, _, _, _)
\* The loop of add_path_of_intro_nodes / add_path_of_forget_nodes: one new
\* vertex per element w of diff, its bag the previous bag with w added
\* (intro = TRUE) or removed; then the arc from the last vertex to v.
AddChain(s, last_node, v, diff, intro) ==
    IF diff = <<>>
    THEN [s EXCEPT !.A = @ \cup {<<last_node, v>>}]
    ELSE LET new_node == Fresh(s.V)
             w        == Head(diff)
             newbag   == IF intro THEN s.bag[last_node] \cup {w}
                         ELSE s.bag[last_node] \ {w}
         IN  AddChain([V    |-> s.V \cup {new_node},
                       A    |-> s.A \cup {<<last_node, new_node>>},
                       bag  |-> [x \in s.V \cup {new_node} |->
                                   IF x = new_node THEN newbag ELSE s.bag[x]],
                       root |-> s.root],
                      new_node, v, Tail(diff), intro)

\* diff = list(...); diff.pop()
PopLast(S) == LET l == SetToSeq(S) IN SubSeq(l, 1, Len(l) - 1)

\* a faulty path insertion: the arc (u, v) is left as it is
add_path_of_intro_nodes_keeps_arc(s, u, v) == s

\* Replace the arc (u, v) by a path of introduce nodes.
add_path_of_intro_nodes(s, u, v) ==
    IF Cardinality(s.bag[u]) + 1 = Cardinality(s.bag[v]) THEN s
    ELSE LET t == AddChain(s, u, v, PopLast(s.bag[v] \ s.bag[u]), TRUE)
         IN  [t EXCEPT !.A = @ \ {<<u, v>>}]

\* a faulty forget path: the vertices forgotten are taken from the whole bag
\* of u, also those that are in the bag of v
add_path_of_forget_nodes_forgets_shared(s, u, v) ==
    IF Cardinality(s.bag[v]) + 1 = Cardinality(s.bag[u]) THEN s
    ELSE LET t == AddChain(s, u, v, PopLast(s.bag[u]), FALSE)
         IN  [t EXCEPT !.A = @ \ {<<u, v>>}]

\* Replace the arc (u, v) by a path of forget nodes.
add_path_of_forget_nodes(s, u, v) ==
    IF Cardinality(s.bag[v]) + 1 = Cardinality(s.bag[u]) THEN s
    ELSE LET t == AddChain(s, u, v, PopLast(s.bag[u] \ s.bag[v]), FALSE)
         IN  [t EXCEPT !.A = @ \ {<<u, v>>}]

\* Step 5, one vertex ui with exactly one child.
Step5Node(s, ui) ==
    IF out_degree(s, ui) # 1 THEN s
    ELSE
      LET vi == neighbors_out(s, ui)[1]
      IN  IF s.bag[ui] = s.bag[vi]
          THEN \* merge the nodes if the two bags are the same
               LET V2 == s.V \ {ui}
                   A1 == IF in_degree(s, ui) = 1
                         THEN s.A \cup {<<(CHOOSE q \in s.V : <<q, ui>> \in s.A), vi>>}
                         ELSE s.A
               IN  [V    |-> V2,
                    A    |-> {a \in A1 : a[1] # ui /\ a[2] # ui},
                    bag  |-> [x \in V2 |-> s.bag[x]],
                    root |-> IF in_degree(s, ui) = 1 THEN s.root ELSE vi]
          ELSE IF s.bag[ui] \subseteq s.bag[vi]
          THEN add_path_of_intro_nodes(s, ui, vi)
          ELSE IF s.bag[vi] \subseteq s.bag[ui]
          THEN add_path_of_forget_nodes(s, ui, vi)
          ELSE \* the two bags are not related: go through their intersection
               LET wi == Fresh(s.V)
                   t  == [V    |-> s.V \cup {wi},
                          A    |-> (s.A \cup {<<ui, wi>>, <<wi, vi>>}) \ {<<ui, vi>>},
                          bag  |-> [x \in s.V \cup {wi} |->
                                      IF x = wi THEN s.bag[ui] \cap s.bag[vi]
                                      ELSE s.bag[x]],
                          root |-> s.root]
               IN  add_path_of_intro_nodes(add_path_of_forget_nodes(t, ui, wi), wi, vi)

RECURSIVE Step5Loop(_, _)
Step5Loop(s, todo) ==
    IF todo = <<>> THEN s
    ELSE Step5Loop(Step5Node(s, Head(todo)), Tail(todo))

\* Step 5: a vertex with one child is an introduce node or a forget node.
Step5(s) == Step5Loop(s, SetToSeq(s.V))

\* a faulty relabelling: the indices count down along the breadth-first order
BFSRelabelReversed(s) ==
    LET E     == {{a[1], a[2]} : a \in s.A}
        order == breadth_first_search(s.V, E, s.root)
        idx(u) == Len(order) - 1 - IndexOf(order, u)
    IN  [N   |-> Len(order),
         bag |-> [i \in 1..Len(order) |-> s.bag[order[Len(order) + 1 - i]]],
         E   |-> {{idx(a[1]), idx(a[2])} : a \in s.A}]

\* The relabelling of the result: vertex u becomes (i, bag[u]), i its place
\* in the breadth-first order from the root.  The result is kept as
\*   N the number of nodes, bag[i + 1] the bag of index i,
\*   E the tree edges between indices.
BFSRelabel(s) ==
    LET E     == {{a[1], a[2]} : a \in s.A}
        order == breadth_first_search(s.V, E, s.root)
    IN  [N   |-> Len(order),
         bag |-> [i \in 1..Len(order) |-> s.bag[order[i]]],
         E   |-> {{IndexOf(order, a[1]), IndexOf(order, a[2])} : a \in s.A}]

EmptyNiceTD == [N |-> 0, bag |-> <<>>, E |-> {}]

\* make_nice_tree_decomposition(graph, tree_decomp), for a valid tree_decomp
make_nice_tree_decomposition(td) ==
    IF Len(td.bag) = 0 THEN EmptyNiceTD
    ELSE BFSRelabel(Step5(Step4(Step3(Step2(Step1(td))))))

-----------------------------------------------------------------------------
(* The labelled nice tree decomposition, as the counting loop reads it:    *)
(*   N  number of nodes        bag[i + 1]       bag of node index i        *)
(*   children[i + 1]  neighbors_out of node i   label[i + 1]  its type     *)

RECURSIVE BFSArcs(_, _, _, _)
\* Graph.breadth_first_search(start, edges=True): the arcs <<u, v>> along
\* which the search from the start first reaches each vertex v
BFSArcs(V, E, queue, seen) ==
    IF queue = <<>> THEN {}
    ELSE LET u  == Head(queue)
             nb == SetToSeq({v \in V : {u, v} \in E /\ v # u /\ v \notin seen})
         IN  {<<u, v>> : v \in Range(nb)}
                 \cup BFSArcs(V, E, Tail(queue) \o nb, seen \cup Range(nb))

NoTD == [built |-> FALSE, N |-> 0, bag |-> <<>>, children |-> <<>>, label |-> <<>>]

\* label_nice_tree_decomposition(nice_TD, root, directed=True): the DiGraph
\* of the breadth-first edges from the root, each node labelled by degree.
label_nice_tree_decomposition(nice) ==
    LET N        == IF nice.E = {} THEN 0 ELSE nice.N
        arcs     == BFSArcs(0..(N - 1), nice.E, <<0>>, {0})
        kids(i)  == SetToSeq({j \in 0..(N - 1) : <<i, j>> \in arcs})
        lab(i)   == LET out_deg == Len(kids(i))
                    IN  IF out_deg = 2 THEN "join"
                        ELSE IF out_deg = 1
                        THEN IF Cardinality(nice.bag[i + 1])
                                  = Cardinality(nice.bag[kids(i)[1] + 1]) + 1
                             THEN "intro" ELSE "forget"
                        ELSE "leaf"
    IN  [built    |-> TRUE,
         N        |-> N,
         bag      |-> [i \in 1..N |-> nice.bag[i]],
         children |-> [i \in 1..N |-> kids(i - 1)],
         label    |-> [i \in 1..N |-> lab(i - 1)]]

SymDiff(A, B) == (A \ B) \cup (B \ A)

\* the nodes node_changes records
ChangeNodes(td) == {i \in 0..(td.N - 1) : td.label[i + 1] \in {"intro", "forget"}}

\* the difference of a node's bag and its first child's bag
ChangeSet(td, i) == SymDiff(td.bag[i + 1], td.bag[td.children[i + 1][1] + 1])

\* node_changes(labelled_TD): unpacking "(extra_vertex,) = ..." raises
\* ValueError unless the symmetric difference has exactly one element.
node_changes_raises(td) ==
    \E i \in ChangeNodes(td) : Cardinality(ChangeSet(td, i)) # 1

node_changes(td) ==
    [i \in ChangeNodes(td) |-> CHOOSE x \in ChangeSet(td, i) : TRUE]

-----------------------------------------------------------------------------
(* Mapping codec: an assignment of a bag's vertices to V(H) as one integer *)
(* in base graph_size.  Python raises ZeroDivisionError on // 0 and % 0;   *)
(* the *_raises predicates say when.                                       *)

extract_bag_vertex_raises(mapping, index, graph_size) == graph_size = 0

\* a faulty extract_bag_vertex: the lowest digit, whatever the index
extract_bag_vertex_lowest_digit(mapping, index, graph_size) == mapping % graph_size

extract_bag_vertex(mapping, index, graph_size) ==
    (mapping \div Pow(graph_size, index)) % graph_size

\* a faulty add_vertex_into_mapping: the remainder is taken by graph_size
\* instead of graph_size ** index, so it raises whenever graph_size is 0
add_vertex_into_mapping_mod_size(new_vertex, mapping, index, graph_size) ==
    graph_size = 0

add_vertex_into_mapping_raises(new_vertex, mapping, index, graph_size) ==
    Pow(graph_size, index) = 0

add_vertex_into_mapping(new_vertex, mapping, index, graph_size) ==
    LET temp         == Pow(graph_size, index)
        right_digits == mapping % temp
        left_digits  == mapping - right_digits
    IN  graph_size * left_digits + temp * new_vertex + right_digits

\* a faulty remove_vertex_from_mapping: the left digits start at position
\* index instead of index + 1, so the removed digit is kept
remove_vertex_from_mapping_keeps_digit(mapping, index, graph_size) ==
    LET left_digits  == mapping - (mapping % Pow(graph_size, index))
        right_digits == mapping % Pow(graph_size, index)
    IN  (left_digits \div graph_size) + right_digits

remove_vertex_from_mapping_raises(mapping, index, graph_size) == graph_size = 0

remove_vertex_from_mapping(mapping, index, graph_size) ==
    LET left_digits  == mapping - (mapping % Pow(graph_size, index + 1))
        right_digits == mapping % Pow(graph_size, index)
    IN  (left_digits \div graph_size) + right_digits

\* encode_clr_list(clr_list, base)
encode_clr_list(clr_list, base) ==
    SumSeq([idx \in 1..Len(clr_list) |-> clr_list[idx] * Pow(base, idx - 1)])

\* decode_clr_int(num, base, nth)
decode_clr_int(num, base, nth) == (num \div Pow(base, nth)) % base

-----------------------------------------------------------------------------
(* Node updates.  Each returns [tbl |-> the new DP entry, err |-> the       *)
(* exception raised or "none"].  Cell p of a list is element p + 1.        *)

\* a faulty allocation: one cell too many
ZerosOneMore(n) == [i \in 1..(n + 1) |-> 0]

Zeros(n) == [i \in 1..n |-> 0]

Ok(tbl) == [tbl |-> tbl, err |-> "none"]

Raise(e) == [tbl |-> <<>>, err |-> e]

ChildIndex(td, i) == td.children[i + 1][1]

\* the children of node i whose bag equals the node's bag (join nodes)
SameBagChildren(td, i) ==
    SelectSeq(td.children[i + 1], LAMBDA c : td.bag[c + 1] = td.bag[i + 1])

\* [left * right for left, right in zip(l, r)]
ZipProduct(l, r) ==
    [p \in 1..(IF Len(l) < Len(r) THEN Len(l) ELSE Len(r)) |-> l[p] * r[p]]

(* --- count_homomorphisms_int_pre ---------------------------------------- *)

\* a faulty is_valid_mapping: only the first bag neighbour is tested
is_valid_mapping_first_only(mapped_intro_vtx, mapped_nbhrs, H) ==
    mapped_nbhrs # <<>> => has_edge(H, mapped_intro_vtx, mapped_nbhrs[1])

\* a faulty is_valid_mapping: valid iff H has no edge to any neighbour image
is_valid_mapping_non_edges(mapped_intro_vtx, mapped_nbhrs, H) ==
    \A j \in 1..Len(mapped_nbhrs) : ~has_edge(H, mapped_intro_vtx, mapped_nbhrs[j])

\* is_valid_mapping(mapped_intro_vtx, mapped_nbhrs, target_graph)
is_valid_mapping_pre(mapped_intro_vtx, mapped_nbhrs, H) ==
    \A j \in 1..Len(mapped_nbhrs) : has_edge(H, mapped_intro_vtx, mapped_nbhrs[j])

\* a faulty leaf: the empty assignment is counted zero times
add_leaf_node_counts_zero == Ok(<<0>>)

\* _add_leaf_node_int_pre
add_leaf_node_int_pre == Ok(<<1>>)

\* target_graph.density() as the pair <<numerator, denominator>>: the
\* number of edges over n(n-1)/2, and 0 for a graph with fewer than 2 vertices
density(H) ==
    IF H.n < 2 THEN <<0, 1>> ELSE <<2 * Cardinality(H.E), H.n * (H.n - 1)>>

\* target_density >= self.density_threshold
target_is_dense(H, threshold) ==
    density(H)[1] * ThresholdDen >= threshold * density(H)[2]

\* a faulty adjacency matrix: ones on the diagonal
adjacency_matrix_with_loops(H) ==
    [u \in 1..H.n |-> [v \in 1..H.n |->
        IF u = v \/ has_edge(H, u - 1, v - 1) THEN 1 ELSE 0]]

\* target_graph.adjacency_matrix(): entry [u, v] is row u + 1, column v + 1
adjacency_matrix(H) ==
    [u \in 1..H.n |-> [v \in 1..H.n |-> IF has_edge(H, u - 1, v - 1) THEN 1 ELSE 0]]

\* target = target_adj_mat if target_is_dense else self.target_graph
TargetRep(H, threshold) ==
    IF target_is_dense(H, threshold) THEN [mat |-> adjacency_matrix(H)] ELSE H

\* is_valid_mapping(target_vtx, mapped_nbhs_in_target, target) as
\* GraphHomomorphismCounter calls it: valid iff H has an edge from the
\* image of x to the image of every bag neighbour of x; target is the
\* adjacency matrix of H (a record with the field mat) or H itself.
is_valid_mapping_best(mapped_intro_vtx, mapped_nbhrs, target) ==
    IF "mat" \in DOMAIN target
    THEN \A j \in 1..Len(mapped_nbhrs) :
            target.mat[mapped_intro_vtx + 1][mapped_nbhrs[j] + 1] # 0
    ELSE \A j \in 1..Len(mapped_nbhrs) :
            has_edge(target, mapped_intro_vtx, mapped_nbhrs[j])

\* is_valid_mapping as the entry point impl_ resolves the name
is_valid_mapping(impl_, mapped_intro_vtx, mapped_nbhrs, H) ==
    IF impl_ = "best" THEN is_valid_mapping_best(mapped_intro_vtx, mapped_nbhrs, H)
    ELSE is_valid_mapping_pre(mapped_intro_vtx, mapped_nbhrs, H)

RECURSIVE IntroTargets(_, _, _, _, _)
\* The loop "for target_vtx in target_graph" of an intro node: write the
\* child's count at index mapping when the image is valid, then advance
\* mapping by c.step.  A target vertex outside c.allowed is skipped with
\* "continue" after advancing mapping by c.skipstep.  c holds what the loop
\* only reads: impl, H, target, allowed, step, skipstep; c.target is what
\* is_valid_mapping tests edges on; c.step = -1 says that
\* computing the step raises ValueError (max() of an empty sequence).
IntroTargets(r, mapping, target_vtx, val_nbhs, c) ==
    IF target_vtx = c.H.n \/ r.err # "none" THEN r
    ELSE IF target_vtx \notin c.allowed
    THEN IntroTargets(r, mapping + c.skipstep, target_vtx + 1, val_nbhs, c)
    ELSE LET r2 == IF ~is_valid_mapping(c.impl, target_vtx, val_nbhs[2], c.target) THEN r
                   ELSE IF mapping < Len(r.tbl)
                   THEN [r EXCEPT !.tbl[mapping + 1] = val_nbhs[1]]
                   ELSE [r EXCEPT !.err = "IndexError"]
             r3 == IF r2.err = "none" /\ c.step = -1
                   THEN [r2 EXCEPT !.err = "ValueError"] ELSE r2
         IN  IntroTargets(r3, mapping + c.step, target_vtx + 1, val_nbhs, c)

RECURSIVE IntroMapped(_, _, _, _, _, _)
\* The loop "for mapped in range(len(child entry))" of an intro node.
IntroMapped(r, mapped, child, intro_vtx_index, node_nbhs_in_bag, c) ==
    IF mapped >= Len(child) \/ r.err # "none" THEN r
    ELSE IF \/ (node_nbhs_in_bag # <<>> /\ extract_bag_vertex_raises(mapped, 0, c.H.n))
            \/ add_vertex_into_mapping_raises(0, mapped, intro_vtx_index, c.H.n)
    THEN [r EXCEPT !.err = "ZeroDivisionError"]
    ELSE LET mapped_nbhs == [j \in 1..Len(node_nbhs_in_bag) |->
                               extract_bag_vertex(mapped, node_nbhs_in_bag[j], c.H.n)]
             mapping     == add_vertex_into_mapping(0, mapped, intro_vtx_index, c.H.n)
         IN  IntroMapped(IntroTargets(r, mapping, 0, <<child[mapped + 1], mapped_nbhs>>, c),
                         mapped + 1, child, intro_vtx_index, node_nbhs_in_bag, c)

\* a faulty neighbourhood: every bag neighbour is looked up at position 0
NbhsInBagFirstPosition(G, intro_vertex, child_node_vtx_tuple) ==
    LET idx == {j \in 1..Len(child_node_vtx_tuple) :
                   has_edge(G, intro_vertex, child_node_vtx_tuple[j])}
    IN  [j \in 1..Cardinality(idx) |-> 0]

\* node_nbhs_in_bag: positions in the child's bag of the neighbours of x
NbhsInBag(G, intro_vertex, child_node_vtx_tuple) ==
    LET idx == {j \in 1..Len(child_node_vtx_tuple) :
                   has_edge(G, intro_vertex, child_node_vtx_tuple[j])}
    IN  [j \in 1..Cardinality(idx) |-> SetToSeq(idx)[j] - 1]

\* a faulty intro node: the index advances by 1 per target vertex
add_intro_node_steps_by_one(td, i, DP, G, H, ncd) ==
    LET node_vtx_tuple  == SetToSeq(td.bag[i + 1])
        c               == ChildIndex(td, i)
        intro_vtx_index == IndexOf(node_vtx_tuple, ncd[i])
    IN  IntroMapped(Ok(Zeros(Pow(H.n, Len(node_vtx_tuple)))), 0, DP[c + 1],
                    intro_vtx_index, NbhsInBag(G, ncd[i], SetToSeq(td.bag[c + 1])),
                    [impl |-> "int_pre", H |-> H, target |-> H, allowed |-> 0..(H.n - 1),
                     step |-> 1, skipstep |-> 0])

\* _add_intro_node_int_pre
add_intro_node_int_pre(td, i, DP, G, H, ncd) ==
    LET node_vtx_tuple  == SetToSeq(td.bag[i + 1])
        c               == ChildIndex(td, i)
        child_tuple     == SetToSeq(td.bag[c + 1])
        intro_vertex    == ncd[i]
        intro_vtx_index == IndexOf(node_vtx_tuple, intro_vertex)
        nbhs            == NbhsInBag(G, intro_vertex, child_tuple)
    IN  IntroMapped(Ok(Zeros(Pow(H.n, Len(node_vtx_tuple)))), 0, DP[c + 1],
                    intro_vtx_index, nbhs,
                    [impl |-> "int_pre", H |-> H, target |-> H, allowed |-> 0..(H.n - 1),
                     step |-> Pow(H.n, intro_vtx_index), skipstep |-> 0])

RECURSIVE ForgetTargets(_, _, _, _, _, _)
\* The loop "for target_vtx in target_graph" of a forget node: add up the
\* child's cells extended_mapping, extended_mapping + step, ...
ForgetTargets(acc, extended_mapping, target_vtx, k, child, step) ==
    IF target_vtx = k \/ acc.err # "none" THEN acc
    ELSE IF extended_mapping >= Len(child)
    THEN [acc EXCEPT !.err = "IndexError"]
    ELSE ForgetTargets([acc EXCEPT !.sum = @ + child[extended_mapping + 1]],
                       extended_mapping + step, target_vtx + 1, k, child, step)

RECURSIVE ForgetMappings(_, _, _, _, _)
\* The loop "for mapping in mappings_length_range" of a forget node.
ForgetMappings(r, mapping, k, child, forgotten_vtx_index) ==
    IF mapping >= Len(r.tbl) \/ r.err # "none" THEN r
    ELSE IF add_vertex_into_mapping_raises(0, mapping, forgotten_vtx_index, k)
    THEN [r EXCEPT !.err = "ZeroDivisionError"]
    ELSE LET acc == ForgetTargets([sum |-> 0, err |-> "none"],
                        add_vertex_into_mapping(0, mapping, forgotten_vtx_index, k),
                        0, k, child, Pow(k, forgotten_vtx_index))
         IN  ForgetMappings(IF acc.err # "none" THEN [r EXCEPT !.err = acc.err]
                            ELSE [r EXCEPT !.tbl[mapping + 1] = acc.sum],
                            mapping + 1, k, child, forgotten_vtx_index)

\* a faulty forget node: only the first target vertex is added up
add_forget_node_first_target(td, i, DP, G, H, ncd) ==
    LET c == ChildIndex(td, i)
    IN  ForgetMappings(Ok(Zeros(Pow(H.n, Cardinality(td.bag[i + 1])))), 0,
                       IF H.n > 1 THEN 1 ELSE H.n, DP[c + 1],
                       IndexOf(SetToSeq(td.bag[c + 1]), ncd[i]))

\* _add_forget_node_int_pre
add_forget_node_int_pre(td, i, DP, G, H, ncd) ==
    LET node_vtx_tuple      == SetToSeq(td.bag[i + 1])
        c                   == ChildIndex(td, i)
        child_tuple         == SetToSeq(td.bag[c + 1])
        forgotten_vtx       == ncd[i]
    IN  IF forgotten_vtx \notin td.bag[c + 1] THEN Raise("ValueError")
        ELSE ForgetMappings(Ok(Zeros(Pow(H.n, Len(node_vtx_tuple)))), 0, H.n,
                            DP[c + 1], IndexOf(child_tuple, forgotten_vtx))

\* a faulty join node: the left child's vector is taken, the right one is
\* not multiplied in
add_join_node_int_pre_left_only(td, i, DP) ==
    LET same == SameBagChildren(td, i)
    IN  IF Len(same) # 2 THEN Raise("ValueError")
        ELSE Ok(DP[same[1] + 1])

\* _add_join_node_int_pre
add_join_node_int_pre(td, i, DP) ==
    LET same == SameBagChildren(td, i)
    IN  IF Len(same) # 2 THEN Raise("ValueError")
        ELSE Ok(ZipProduct(DP[same[1] + 1], DP[same[2] + 1]))

\* the match statement of count_homomorphisms_int_pre for the node of index
\* node, on the table DP; c holds what it only reads: G, H, ncd
IntPreNode(td, node, DP, c) ==
    LET label == td.label[node + 1]
    IN  CASE label = "intro"  -> add_intro_node_int_pre(td, node, DP, c.G, c.H, c.ncd)
          [] label = "forget" -> add_forget_node_int_pre(td, node, DP, c.G, c.H, c.ncd)
          [] label = "join"   -> add_join_node_int_pre(td, node, DP)
          [] OTHER            -> add_leaf_node_int_pre

RECURSIVE IntPreLoop(_, _, _, _)
\* the loop of count_homomorphisms_int_pre from node index node down to 0
\* as a function of the table r.tbl filled so far; c holds what the loop
\* only reads: G, H, ncd.  The first exception ends the loop.
IntPreLoop(r, node, td, c) ==
    IF node < 0 \/ r.err # "none" THEN r
    ELSE LET e == IntPreNode(td, node, r.tbl, c)
         IN  IF e.err # "none" THEN [r EXCEPT !.err = e.err]
             ELSE IntPreLoop([r EXCEPT !.tbl[node + 1] = e.tbl], node - 1, td, c)

\* count_homomorphisms_int_pre from the allocation of the table on, for the
\* labelled decomposition td of G: the table after the loop, the exception
\* raised ("none" if none) and the returned count
IntPreFrom(td, ncd, G, H) ==
    LET r == IntPreLoop(Ok([i \in 1..td.N |-> <<>>]), td.N - 1, td,
                        [G |-> G, H |-> H, ncd |-> ncd])
    IN  IF r.err # "none" THEN [tbl |-> r.tbl, err |-> r.err, result |-> 0]
        ELSE IF r.tbl = <<>> \/ r.tbl[1] = <<>>
        THEN [tbl |-> r.tbl, err |-> "IndexError", result |-> 0]
        ELSE [tbl |-> r.tbl, err |-> "none", result |-> r.tbl[1][1]]

\* count_homomorphisms_int_pre(G, H) when G.treewidth(certificate=True)
\* returns td: the table, the exception raised and the returned count
count_homomorphisms_int_pre(G, H, td) ==
    LET nice     == make_nice_tree_decomposition(td)
        labelled == label_nice_tree_decomposition(nice)
    IN  IF ~is_valid_tree_decomposition(G, td)
        THEN [tbl |-> <<>>, err |-> "ValueError", result |-> 0]
        ELSE IF nice.N = 0
        THEN [tbl |-> <<>>, err |-> "IndexError", result |-> 0]
        ELSE IF node_changes_raises(labelled)
        THEN [tbl |-> <<>>, err |-> "ValueError", result |-> 0]
        ELSE IntPreFrom(labelled, node_changes(labelled), G, H)

(* --- count_homomorphisms_int -------------------------------------------- *)

\* is_valid_mapping(mapping, intro_vtx, node, graph, target_graph)
is_valid_mapping_int(mapping, intro_vtx, node_vtx_tuple, G, H) ==
    LET intro_vtx_index  == IndexOf(node_vtx_tuple, intro_vtx)
        mapped_intro_vtx == extract_bag_vertex(mapping, intro_vtx_index, H.n)
    IN  \A j \in 1..Len(node_vtx_tuple) :
           ~(/\ has_edge(G, intro_vtx, node_vtx_tuple[j])
             /\ ~has_edge(H, mapped_intro_vtx, extract_bag_vertex(mapping, j - 1, H.n)))

\* a faulty leaf update: the empty mapping is counted twice
add_leaf_node_int_counts_two == Ok(<<2>>)

\* _add_leaf_node_int
add_leaf_node_int == Ok(<<1>>)

RECURSIVE IntroMappingsInt(_, _, _, _, _)
\* The loop "for mapping in mappings_length_range" of _add_intro_node_int;
\* c holds what it only reads: G, H, node_vtx_tuple, intro_vertex.
IntroMappingsInt(r, mapping, child, intro_vtx_index, c) ==
    IF mapping >= Len(r.tbl) \/ r.err # "none" THEN r
    ELSE IF extract_bag_vertex_raises(mapping, intro_vtx_index, c.H.n)
    THEN [r EXCEPT !.err = "ZeroDivisionError"]
    ELSE IF ~is_valid_mapping_int(mapping, c.intro_vertex, c.node_vtx_tuple, c.G, c.H)
    THEN IntroMappingsInt(r, mapping + 1, child, intro_vtx_index, c)
    ELSE LET child_mapping == remove_vertex_from_mapping(mapping, intro_vtx_index, c.H.n)
         IN  IF child_mapping >= Len(child) THEN [r EXCEPT !.err = "IndexError"]
             ELSE IntroMappingsInt([r EXCEPT !.tbl[mapping + 1] = child[child_mapping + 1]],
                                   mapping + 1, child, intro_vtx_index, c)

\* _add_intro_node_int
add_intro_node_int(td, i, DP, G, H, ncd) ==
    LET node_vtx_tuple == SetToSeq(td.bag[i + 1])
        intro_vertex   == ncd[i]
    IN  IntroMappingsInt(Ok(Zeros(Pow(H.n, Len(node_vtx_tuple)))), 0,
                         DP[ChildIndex(td, i) + 1],
                         IndexOf(node_vtx_tuple, intro_vertex),
                         [G |-> G, H |-> H, node_vtx_tuple |-> node_vtx_tuple,
                          intro_vertex |-> intro_vertex])

RECURSIVE ForgetTargetsInt(_, _, _, _, _, _)
\* The loop "for target_vtx in target_graph" of _add_forget_node_int: the
\* extended mapping is computed anew for every target vertex.
ForgetTargetsInt(acc, mapping, target_vtx, k, child, forgotten_vtx_index) ==
    IF target_vtx = k \/ acc.err # "none" THEN acc
    ELSE LET extended_mapping ==
                 add_vertex_into_mapping(target_vtx, mapping, forgotten_vtx_index, k)
         IN  IF extended_mapping >= Len(child) THEN [acc EXCEPT !.err = "IndexError"]
             ELSE ForgetTargetsInt([acc EXCEPT !.sum = @ + child[extended_mapping + 1]],
                                   mapping, target_vtx + 1, k, child, forgotten_vtx_index)

RECURSIVE ForgetMappingsInt(_, _, _, _, _)
ForgetMappingsInt(r, mapping, k, child, forgotten_vtx_index) ==
    IF mapping >= Len(r.tbl) \/ r.err # "none" THEN r
    ELSE LET acc == ForgetTargetsInt([sum |-> 0, err |-> "none"], mapping, 0, k,
                                     child, forgotten_vtx_index)
         IN  ForgetMappingsInt(IF acc.err # "none" THEN [r EXCEPT !.err = acc.err]
                               ELSE [r EXCEPT !.tbl[mapping + 1] = acc.sum],
                               mapping + 1, k, child, forgotten_vtx_index)

\* _add_forget_node_int
add_forget_node_int(td, i, DP, G, H, ncd) ==
    LET node_vtx_tuple == SetToSeq(td.bag[i + 1])
        c              == ChildIndex(td, i)
        child_tuple    == SetToSeq(td.bag[c + 1])
        forgotten_vtx  == ncd[i]
    IN  IF forgotten_vtx \notin td.bag[c + 1] THEN Raise("ValueError")
        ELSE ForgetMappingsInt(Ok(Zeros(Pow(H.n, Len(node_vtx_tuple)))), 0, H.n,
                               DP[c + 1], IndexOf(child_tuple, forgotten_vtx))

\* a faulty join node: the left child's entry without the product
add_join_node_left_only(td, i, DP) ==
    LET same == SameBagChildren(td, i)
    IN  IF Len(same) # 2 THEN Raise("ValueError") ELSE Ok(DP[same[1] + 1])

\* _add_join_node_int
add_join_node_int(td, i, DP) ==
    LET same == SameBagChildren(td, i)
    IN  IF Len(same) # 2 THEN Raise("ValueError")
        ELSE Ok(ZipProduct(DP[same[1] + 1], DP[same[2] + 1]))

(* --- count_homomorphisms (dictionaries keyed by tuples of pairs) -------- *)
(* A dictionary is the sequence of its <<key, value>> items in insertion   *)
(* order; a key is a tuple of pairs <<v, image of v>>, by increasing v.    *)

DictHas(d, key) == \E j \in 1..Len(d) : d[j][1] = key

DictGet(d, key) == d[CHOOSE j \in 1..Len(d) : d[j][1] = key][2]

\* is_homomorphism(G.subgraph(bag), H, mapping)
is_homomorphism(G, H, key) ==
    \A a, b \in 1..Len(key) :
        has_edge(G, key[a][1], key[b][1]) => has_edge(H, key[a][2], key[b][2])

\* enumerate_homomorphisms(graph.subgraph(node_vertices), target_graph,
\* as_tuples=True): the product of the target vertices in lexicographic
\* order, filtered by is_homomorphism.
enumerate_homomorphisms(G, H, bag) ==
    LET vs     == SetToSeq(bag)
        b      == Len(vs)
        key(x) == [j \in 1..b |-> <<vs[j], (x \div Pow(H.n, b - j)) % H.n>>]
        all    == [x \in 1..Pow(H.n, b) |-> key(x - 1)]
    IN  SelectSeq(all, LAMBDA k : is_homomorphism(G, H, k))

\* is_valid_mapping(G, H, mapping): every pair of items
is_valid_mapping_basic(G, H, mapping) ==
    \A a, b \in 1..Len(mapping) :
        a < b => ~(/\ has_edge(G, mapping[a][1], mapping[b][1])
                   /\ ~has_edge(H, mapping[a][2], mapping[b][2]))

\* _add_leaf_node
add_leaf_node == Ok(<< <<(<<>>), 1>> >>)

\* tuple((k, v) for k, v in hom if k != x)
WithoutVertex(hom, x) == SelectSeq(hom, LAMBDA kv : kv[1] # x)

\* tuple(sorted(hom + ((x, t),), key=lambda x: x[0]))
WithVertex(hom, x, t) ==
    LET before == SelectSeq(hom, LAMBDA kv : kv[1] <= x)
        after  == SelectSeq(hom, LAMBDA kv : kv[1] > x)
    IN  before \o << <<x, t>> >> \o after

\* _add_intro_node
add_intro_node(td, i, DP, G, H, ncd) ==
    LET enum_homs == enumerate_homomorphisms(G, H, td.bag[i + 1])
        child     == DP[ChildIndex(td, i) + 1]
    IN  IF \E j \in 1..Len(enum_homs) : ~DictHas(child, WithoutVertex(enum_homs[j], ncd[i]))
        THEN Raise("KeyError")
        ELSE Ok([j \in 1..Len(enum_homs) |->
                   <<enum_homs[j], DictGet(child, WithoutVertex(enum_homs[j], ncd[i]))>>])

\* _add_forget_node
add_forget_node(td, i, DP, G, H, ncd) ==
    LET enum_homs == enumerate_homomorphisms(G, H, td.bag[i + 1])
        child     == DP[ChildIndex(td, i) + 1]
        ext(j, t) == WithVertex(enum_homs[j], ncd[i], t)
        used(j)   == {t \in 0..(H.n - 1) : is_valid_mapping_basic(G, H, ext(j, t))}
    IN  IF \E j \in 1..Len(enum_homs) : \E t \in used(j) : ~DictHas(child, ext(j, t))
        THEN Raise("KeyError")
        ELSE Ok([j \in 1..Len(enum_homs) |->
                   <<enum_homs[j],
                     SumSeq([t \in 1..H.n |->
                               IF (t - 1) \in used(j) THEN DictGet(child, ext(j, t - 1))
                               ELSE 0])>>])

\* _add_join_node
add_join_node(td, i, DP, G, H) ==
    LET same      == SameBagChildren(td, i)
        enum_homs == enumerate_homomorphisms(G, H, td.bag[i + 1])
    IN  IF Len(same) # 2 THEN Raise("ValueError")
        ELSE IF \E j \in 1..Len(enum_homs) :
                   \/ ~DictHas(DP[same[1] + 1], enum_homs[j])
                   \/ ~DictHas(DP[same[2] + 1], enum_homs[j])
        THEN Raise("KeyError")
        ELSE Ok([j \in 1..Len(enum_homs) |->
                   <<enum_homs[j], DictGet(DP[same[1] + 1], enum_homs[j])
                                     * DictGet(DP[same[2] + 1], enum_homs[j])>>])

(* --- whole runs of count_homomorphisms_int and count_homomorphisms ------- *)

\* the match statement of count_homomorphisms_int (impl_ = "int") or of
\* count_homomorphisms (impl_ = "basic") for the node of index node
NodeUpdate(impl_, td, node, DP, c) ==
    LET label == td.label[node + 1]
    IN  IF impl_ = "int"
        THEN CASE label = "intro" -> add_intro_node_int(td, node, DP, c.G, c.H, c.ncd)
               [] label \in {"forget", "root"} ->
                      add_forget_node_int(td, node, DP, c.G, c.H, c.ncd)
               [] label = "join"  -> add_join_node_int(td, node, DP)
               [] OTHER           -> add_leaf_node_int
        ELSE CASE label = "intro"  -> add_intro_node(td, node, DP, c.G, c.H, c.ncd)
               [] label = "forget" -> add_forget_node(td, node, DP, c.G, c.H, c.ncd)
               [] label = "join"   -> add_join_node(td, node, DP, c.G, c.H)
               [] OTHER            -> add_leaf_node

RECURSIVE DPLoop(_, _, _, _, _)
\* the loop over reversed(dir_labelled_TD.vertices()), from index node down
DPLoop(impl_, r, node, td, c) ==
    IF node < 0 \/ r.err # "none" THEN r
    ELSE LET e == NodeUpdate(impl_, td, node, r.tbl, c)
         IN  IF e.err # "none" THEN [r EXCEPT !.err = e.err]
             ELSE DPLoop(impl_, [r EXCEPT !.tbl[node + 1] = e.tbl], node - 1, td, c)

\* count_homomorphisms_int / count_homomorphisms from the allocation of the
\* table on: the table after the loop, the exception raised and the count
DPFrom(impl_, td, ncd, G, H) ==
    LET r == DPLoop(impl_, Ok([i \in 1..td.N |-> <<>>]), td.N - 1, td,
                    [G |-> G, H |-> H, ncd |-> ncd])
    IN  IF r.err # "none" THEN [tbl |-> r.tbl, err |-> r.err, result |-> 0]
        ELSE IF r.tbl = <<>> \/ (impl_ = "int" /\ r.tbl[1] = <<>>)
        THEN [tbl |-> r.tbl, err |-> "IndexError", result |-> 0]
        ELSE IF r.tbl[1] = <<>>
        THEN [tbl |-> r.tbl, err |-> "StopIteration", result |-> 0]
        ELSE [tbl |-> r.tbl, err |-> "none",
              result |-> IF impl_ = "int" THEN r.tbl[1][1] ELSE r.tbl[1][1][2]]

(* --- GraphHomomorphismCounter.count_homomorphisms_best ------------------ *)
(* A colour list is a sequence of naturals; NoClr stands for None.          *)

NoClr == <<-1>>

\* count_occurrences(l): how often each element occurs in l
count_occurrences(l) == [x \in Range(l) |-> Cardinality({j \in 1..Len(l) : l[j] = x})]

\* list_intersection(counter, l): the colours present in both
list_intersection(counter, l) == DOMAIN counter \cap Range(l)

RECURSIVE Prod(_, _)
\* prod(f[i] for i in S)
Prod(f, S) ==
    IF S = {} THEN 1
    ELSE LET x == SetMin(S) IN f[x] * Prod(f, S \ {x})

\* _add_leaf_node_best
add_leaf_node_best == Ok(<<1>>)

\* the colour bookkeeping of _add_intro_node_best when colourful is set:
\* the table length, the target vertices whose decoded colour equals the
\* decoded colour of the intro vertex, and the index step.
ColourfulSetup(bag, intro_vertex, H, g_clr, t_clr) ==
    LET node_clr_counter   == count_occurrences([j \in 1..Cardinality(bag) |->
                                                   g_clr[SetToSeq(bag)[j] + 1]])
        target_clr_counter == count_occurrences(t_clr)
        clr_intersection   == list_intersection(node_clr_counter, t_clr)
        graph_clr_base     == SetMax(Range(g_clr)) + 1
        intro_vtx_clr      == decode_clr_int(encode_clr_list(g_clr, graph_clr_base),
                                             graph_clr_base, intro_vertex)
        target_clr_base    == SetMax(Range(t_clr)) + 1
        target_clr_int     == encode_clr_list(t_clr, target_clr_base)
        max_colour_size    == SetMax({IF node_clr_counter[x] > target_clr_counter[x]
                                      THEN node_clr_counter[x] ELSE target_clr_counter[x] :
                                      x \in clr_intersection})
    IN  [mappings_length |-> Prod([x \in clr_intersection |->
                                     Pow(target_clr_counter[x], node_clr_counter[x])],
                                  clr_intersection),
         allowed |-> {t \in 0..(H.n - 1) :
                         decode_clr_int(target_clr_int, target_clr_base, t) = intro_vtx_clr},
         step    |-> IF clr_intersection = {} THEN -1 ELSE Pow(H.n, max_colour_size)]

\* the exception the colour bookkeeping raises before the loops start:
\* graph_clr[i] out of range for a bag vertex i, or max() of an empty list
ColourfulSetupRaises(bag, g_clr, t_clr) ==
    IF \E v \in bag : v >= Len(g_clr) THEN "IndexError"
    ELSE IF g_clr = <<>> \/ t_clr = <<>> THEN "ValueError"
    ELSE "none"

\* _add_intro_node_best; clr holds the attributes of self the method
\* reads: <<graph_clr, target_clr, colourful, density_threshold>>
add_intro_node_best(td, i, DP, G, H, ncd, clr) ==
    LET node_vtx_tuple  == SetToSeq(td.bag[i + 1])
        c               == ChildIndex(td, i)
        child_tuple     == SetToSeq(td.bag[c + 1])
        intro_vertex    == ncd[i]
        intro_vtx_index == IndexOf(node_vtx_tuple, intro_vertex)
        nbhs            == NbhsInBag(G, intro_vertex, child_tuple)
        setup           == ColourfulSetup(td.bag[i + 1], intro_vertex, H, clr[1], clr[2])
    IN  IF ~clr[3]
        THEN IntroMapped(Ok(Zeros(Pow(H.n, Len(node_vtx_tuple)))), 0, DP[c + 1],
                         intro_vtx_index, nbhs,
                         [impl |-> "best", H |-> H, target |-> TargetRep(H, clr[4]),
                          allowed |-> 0..(H.n - 1),
                          step |-> Pow(H.n, intro_vtx_index), skipstep |-> 0])
        ELSE IF ColourfulSetupRaises(td.bag[i + 1], clr[1], clr[2]) # "none"
        THEN Raise(ColourfulSetupRaises(td.bag[i + 1], clr[1], clr[2]))
        ELSE IntroMapped(Ok(Zeros(setup.mappings_length)), 0, DP[c + 1],
                         intro_vtx_index, nbhs,
                         [impl |-> "best", H |-> H, target |-> TargetRep(H, clr[4]),
                          allowed |-> setup.allowed,
                          step |-> setup.step, skipstep |-> 0])

\* a faulty forget node: the forgotten vertex is taken to be at position 0
add_forget_node_position_zero(td, i, DP, G, H, ncd) ==
    LET c == ChildIndex(td, i)
    IN  IF ncd[i] \notin td.bag[c + 1] THEN Raise("ValueError")
        ELSE ForgetMappings(Ok(Zeros(Pow(H.n, Cardinality(td.bag[i + 1])))), 0, H.n,
                            DP[c + 1], 0)

\* _add_forget_node_best
add_forget_node_best(td, i, DP, G, H, ncd) ==
    LET node_vtx_tuple == SetToSeq(td.bag[i + 1])
        c              == ChildIndex(td, i)
        child_tuple    == SetToSeq(td.bag[c + 1])
        forgotten_vtx  == ncd[i]
    IN  IF forgotten_vtx \notin td.bag[c + 1] THEN Raise("ValueError")
        ELSE ForgetMappings(Ok(Zeros(Pow(H.n, Len(node_vtx_tuple)))), 0, H.n,
                            DP[c + 1], IndexOf(child_tuple, forgotten_vtx))

\* _add_join_node_best: the name dir_labelled_TD is not defined in the
\* method's scope (the attribute is self.dir_labelled_TD)
add_join_node_best(td, i, DP) == Raise("NameError")

RECURSIVE BestLoop(_, _, _, _)
\* the loop of count_homomorphisms_best from node index node down to 0 as a
\* function of the table r.tbl filled so far; c holds what the loop only
\* reads: G, H, ncd, clr.  The first exception ends the loop.
BestLoop(r, node, td, c) ==
    IF node < 0 \/ r.err # "none" THEN r
    ELSE LET label == td.label[node + 1]
             e == CASE label = "intro"  -> add_intro_node_best(td, node, r.tbl, c.G, c.H,
                                                               c.ncd, c.clr)
                    [] label = "forget" -> add_forget_node_best(td, node, r.tbl, c.G, c.H,
                                                                c.ncd)
                    [] label = "join"   -> add_join_node_best(td, node, r.tbl)
                    [] OTHER            -> add_leaf_node_best
         IN  IF e.err # "none" THEN [r EXCEPT !.err = e.err]
             ELSE BestLoop([r EXCEPT !.tbl[node + 1] = e.tbl], node - 1, td, c)

\* count_homomorphisms_best on a constructed counter: the table after the
\* loop, the exception raised ("none" if none) and the returned count
count_homomorphisms_best(td, ncd, G, H, clr) ==
    LET r == BestLoop(Ok([i \in 1..td.N |-> <<>>]), td.N - 1, td,
                      [G |-> G, H |-> H, ncd |-> ncd, clr |-> clr])
    IN  IF r.err # "none" THEN [tbl |-> r.tbl, err |-> r.err, result |-> 0]
        ELSE IF r.tbl = <<>> \/ r.tbl[1] = <<>>
        THEN [tbl |-> r.tbl, err |-> "IndexError", result |-> 0]
        ELSE [tbl |-> r.tbl, err |-> "none", result |-> r.tbl[1][1]]

-----------------------------------------------------------------------------
(* Inputs of a call.                                                       *)

\* the entry points: count_homomorphisms, count_homomorphisms_int,
\* count_homomorphisms_int_pre, GraphHomomorphismCounter
Impls == {"basic", "int", "int_pre", "best"}

PatternGraphs == GraphsUpTo(MaxG) \cup {StarK14}

TargetGraphs == GraphsUpTo(MaxH) \cup {CompleteGraph(4)}

\* the colour lists tried for a graph on n vertices: none, every list of
\* the right length over MaxClr colours, and the all-zero lists one shorter
\* and one longer than n
ClrLists(n) ==
    {NoClr} \cup [1..n -> 0..(MaxClr - 1)]
            \cup {[j \in 1..m |-> 0] : m \in {n - 1, n + 1} \cap Nat}

\* the trees on the positions 0..m-1
TreesOn(m) ==
    {E \in SUBSET {{a, b} : a, b \in 0..(m - 1)} :
        /\ \A e \in E : Cardinality(e) = 2
        /\ Cardinality(E) = m - 1
        /\ Connected(0..(m - 1), E)}

\* graph.treewidth(certificate=True): some valid tree decomposition of the
\* graph, its bags pairwise distinct, in some iteration order; the empty
\* graph gets the empty decomposition
TreeDecomps(g) ==
    IF g.n = 0 THEN {EmptyTD}
    ELSE IF g = StarK14
    THEN {[bag |-> <<{0, 1}, {0, 2}, {0, 3}, {0, 4}>>, E |-> {{0, 3}, {1, 3}, {2, 3}}]}
    ELSE {td \in UNION {[bag : [1..m -> SUBSET (0..(g.n - 1))], E : TreesOn(m)] :
                           m \in 1..MaxBags} :
             /\ \A a, b \in 1..Len(td.bag) : a # b => td.bag[a] # td.bag[b]
             /\ is_valid_tree_decomposition(g, td)}

-----------------------------------------------------------------------------
(* The call as a state machine.                                            *)

\* no use of the codec on its own
NoCodec == [at |-> "idle"]

Init ==
    /\ impl \in Impls
    /\ graph \in PatternGraphs
    /\ target_graph \in TargetGraphs
    /\ density_threshold \in (IF impl = "best" THEN Thresholds ELSE {DefaultThreshold})
    /\ \/ /\ colourful = FALSE
          /\ graph_clr = NoClr
          /\ target_clr = NoClr
       \/ /\ impl = "best"
          /\ graph.n <= MaxClrG
          /\ target_graph.n <= MaxClrG
          /\ colourful = TRUE
          /\ graph_clr \in ClrLists(graph.n)
          /\ target_clr \in ClrLists(target_graph.n)
       \/ /\ impl = "best"
          /\ graph = CompleteGraph(3)
          /\ target_graph = CompleteGraph(3)
          /\ colourful = TRUE
          /\ graph_clr = <<0, 1, 2>>
          /\ target_clr = <<0, 1, 2>>
    /\ tree_decomp = EmptyTD
    /\ dir_labelled_TD = NoTD
    /\ node_changes_dict = <<>>
    /\ DP_table = <<>>
    /\ pc = "entry"
    /\ cur = 0
    /\ result = 0
    /\ error = "none"
    /\ codec = NoCodec
    /\ futures = <<>>

inputs == <<impl, graph, target_graph, density_threshold, colourful, graph_clr, target_clr>>

built == <<tree_decomp, dir_labelled_TD, node_changes_dict>>

Fail(e) == pc' = "error" /\ error' = e

\* a faulty entry: the colour lists are checked after the decomposition
\* is built and labelled
ConstructCheckLate(td) ==
    LET labelled == label_nice_tree_decomposition(make_nice_tree_decomposition(td))
    IN  /\ tree_decomp' = td
        /\ dir_labelled_TD' = labelled
        /\ node_changes_dict' = node_changes(labelled)
        /\ IF impl = "best" /\ colourful /\ (graph_clr = NoClr \/ target_clr = NoClr)
           THEN Fail("MissingColouring") /\ UNCHANGED <<DP_table, cur>>
           ELSE /\ DP_table' = [i \in 1..labelled.N |-> <<>>]
                /\ cur' = labelled.N - 1
                /\ pc' = IF labelled.N = 0 THEN "return" ELSE "loop"
                /\ error' = error

\* the entry point up to the DP loop, for the decomposition td the
\* producer returns: argument checks, normalisation, root selection,
\* labelling, node changes, allocation of the table
ConstructWith(td) ==
    LET nice     == make_nice_tree_decomposition(td)
        labelled == label_nice_tree_decomposition(nice)
    IN  IF impl = "best" /\ colourful /\ (graph_clr = NoClr \/ target_clr = NoClr)
        THEN Fail("MissingColouring") /\ UNCHANGED <<built, DP_table, cur>>
        ELSE /\ tree_decomp' = td
             /\ IF ~is_valid_tree_decomposition(graph, td)
                THEN Fail("ValueError")
                     /\ UNCHANGED <<dir_labelled_TD, node_changes_dict, DP_table, cur>>
                ELSE IF nice.N = 0
                THEN Fail("IndexError")
                     /\ UNCHANGED <<dir_labelled_TD, node_changes_dict, DP_table, cur>>
                ELSE /\ dir_labelled_TD' = labelled
                     /\ IF node_changes_raises(labelled)
                        THEN Fail("ValueError")
                             /\ UNCHANGED <<node_changes_dict, DP_table, cur>>
                        ELSE /\ node_changes_dict' = node_changes(labelled)
                             /\ DP_table' = [i \in 1..labelled.N |-> <<>>]
                             /\ cur' = labelled.N - 1
                             /\ pc' = IF labelled.N = 0 THEN "return" ELSE "loop"
                             /\ error' = error

Construct ==
    /\ pc = "entry"
    /\ \E td \in TreeDecomps(graph) : ConstructWith(td)
    /\ UNCHANGED <<codec, futures, inputs, result>>

\* the match statement's subject for the node the loop is at
node_type == dir_labelled_TD.label[cur + 1]

\* a faulty store: the entry is also written over the last node's entry
StoreAlsoAtLastNode(r) ==
    IF r.err # "none"
    THEN Fail(r.err) /\ UNCHANGED <<DP_table, cur>>
    ELSE /\ DP_table' = [DP_table EXCEPT ![cur + 1] = r.tbl, ![Len(DP_table)] = r.tbl]
         /\ cur' = cur - 1
         /\ pc' = IF cur = 0 THEN "return" ELSE "loop"
         /\ error' = error

\* DP_table[node_index] = entry, or the exception the node update raised
Store(r) ==
    IF r.err # "none"
    THEN Fail(r.err) /\ UNCHANGED <<DP_table, cur>>
    ELSE /\ DP_table' = [DP_table EXCEPT ![cur + 1] = r.tbl]
         /\ cur' = cur - 1
         /\ pc' = IF cur = 0 THEN "return" ELSE "loop"
         /\ error' = error

LeafEntry ==
    CASE impl = "basic"   -> add_leaf_node
      [] impl = "int"     -> add_leaf_node_int
      [] impl = "int_pre" -> add_leaf_node_int_pre
      [] OTHER            -> add_leaf_node_best

IntroEntry ==
    CASE impl = "basic"   -> add_intro_node(dir_labelled_TD, cur, DP_table, graph,
                                            target_graph, node_changes_dict)
      [] impl = "int"     -> add_intro_node_int(dir_labelled_TD, cur, DP_table, graph,
                                                target_graph, node_changes_dict)
      [] impl = "int_pre" -> add_intro_node_int_pre(dir_labelled_TD, cur, DP_table, graph,
                                                    target_graph, node_changes_dict)
      [] OTHER            -> add_intro_node_best(dir_labelled_TD, cur, DP_table, graph,
                                                 target_graph, node_changes_dict,
                                                 <<graph_clr, target_clr, colourful,
                                                   density_threshold>>)

ForgetEntry ==
    CASE impl = "basic"   -> add_forget_node(dir_labelled_TD, cur, DP_table, graph,
                                             target_graph, node_changes_dict)
      [] impl = "int"     -> add_forget_node_int(dir_labelled_TD, cur, DP_table, graph,
                                                 target_graph, node_changes_dict)
      [] impl = "int_pre" -> add_forget_node_int_pre(dir_labelled_TD, cur, DP_table, graph,
                                                     target_graph, node_changes_dict)
      [] OTHER            -> add_forget_node_best(dir_labelled_TD, cur, DP_table, graph,
                                                  target_graph, node_changes_dict)

JoinEntry ==
    CASE impl = "basic"   -> add_join_node(dir_labelled_TD, cur, DP_table, graph, target_graph)
      [] impl = "int"     -> add_join_node_int(dir_labelled_TD, cur, DP_table)
      [] impl = "int_pre" -> add_join_node_int_pre(dir_labelled_TD, cur, DP_table)
      [] OTHER            -> add_join_node_best(dir_labelled_TD, cur, DP_table)

\* the labels the match statement sends to the forget update:
\* count_homomorphisms_int has case 'forget' | 'root', the others case 'forget'
ForgetCases == IF impl = "int" THEN {"forget", "root"} ELSE {"forget"}

AddLeafNode ==
    /\ pc = "loop"
    /\ node_type \notin {"intro", "join"} \cup ForgetCases
    /\ Store(LeafEntry)
    /\ UNCHANGED <<codec, futures, inputs, built, result>>

AddIntroNode ==
    /\ pc = "loop"
    /\ node_type = "intro"
    /\ Store(IntroEntry)
    /\ UNCHANGED <<codec, futures, inputs, built, result>>

AddForgetNode ==
    /\ pc = "loop"
    /\ node_type \in ForgetCases
    /\ Store(ForgetEntry)
    /\ UNCHANGED <<codec, futures, inputs, built, result>>

AddJoinNode ==
    /\ pc = "loop"
    /\ node_type = "join"
    /\ Store(JoinEntry)
    /\ UNCHANGED <<codec, futures, inputs, built, result>>

\* a faulty return: the first cell of the last node's table
ReturnLastTable ==
    /\ pc = "return"
    /\ IF DP_table = <<>> \/ DP_table[Len(DP_table)] = <<>>
       THEN Fail("IndexError") /\ UNCHANGED result
       ELSE /\ result' = IF impl = "basic" THEN DP_table[Len(DP_table)][1][2]
                         ELSE DP_table[Len(DP_table)][1]
            /\ pc' = "done"
            /\ error' = error
    /\ UNCHANGED <<codec, futures, inputs, built, DP_table, cur>>

\* return DP_table[0][0]; count_homomorphisms returns
\* next(iter(DP_table[0].values()))
Return ==
    /\ pc = "return"
    /\ IF DP_table = <<>> \/ (impl # "basic" /\ DP_table[1] = <<>>)
       THEN Fail("IndexError") /\ UNCHANGED result
       ELSE IF DP_table[1] = <<>>
       THEN Fail("StopIteration") /\ UNCHANGED result
       ELSE /\ result' = IF impl = "basic" THEN DP_table[1][1][2] ELSE DP_table[1][1]
            /\ pc' = "done"
            /\ error' = error
    /\ UNCHANGED <<codec, futures, inputs, built, DP_table, cur>>

Next ==
    \/ Construct
    \/ AddLeafNode
    \/ AddIntroNode
    \/ AddForgetNode
    \/ AddJoinNode
    \/ Return

Spec == Init /\ [][Next]_vars

-----------------------------------------------------------------------------
(* The mapping codec on its own: add_vertex_into_mapping on arguments      *)
(* drawn from the bounded ranges, then remove_vertex_from_mapping or       *)
(* extract_bag_vertex on what it returned.                                 *)

\* the call of a counting entry point that never starts
DPIdle ==
    /\ impl = "int_pre"
    /\ graph = CompleteGraph(0)
    /\ target_graph = CompleteGraph(0)
    /\ density_threshold = DefaultThreshold
    /\ colourful = FALSE
    /\ graph_clr = NoClr
    /\ target_clr = NoClr
    /\ tree_decomp = EmptyTD
    /\ dir_labelled_TD = NoTD
    /\ node_changes_dict = <<>>
    /\ DP_table = <<>>
    /\ pc = "idle"
    /\ cur = 0
    /\ result = 0
    /\ error = "none"
    /\ futures = <<>>

dp_vars == <<inputs, built, DP_table, pc, cur, result, error, futures>>

CodecInit ==
    /\ DPIdle
    /\ \E graph_size \in 1..MaxBase, mapping \in 0..MaxMapping, index \in 0..MaxIndex :
          \E new_vertex \in 0..(graph_size - 1) :
              codec = [at |-> "start", graph_size |-> graph_size, mapping |-> mapping,
                       index |-> index, new_vertex |-> new_vertex,
                       inserted |-> 0, removed |-> 0, extracted |-> 0]

\* inserted = add_vertex_into_mapping(new_vertex, mapping, index, graph_size)
CodecInsert ==
    /\ codec.at = "start"
    /\ codec' = [codec EXCEPT !.at = "inserted",
                              !.inserted = add_vertex_into_mapping(codec.new_vertex,
                                  codec.mapping, codec.index, codec.graph_size)]
    /\ UNCHANGED dp_vars

\* removed = remove_vertex_from_mapping(inserted, index, graph_size)
CodecRemove ==
    /\ codec.at = "inserted"
    /\ codec' = [codec EXCEPT !.at = "removed",
                              !.removed = remove_vertex_from_mapping(codec.inserted,
                                  codec.index, codec.graph_size)]
    /\ UNCHANGED dp_vars

\* extracted = extract_bag_vertex(inserted, index, graph_size)
CodecExtract ==
    /\ codec.at = "inserted"
    /\ codec' = [codec EXCEPT !.at = "extracted",
                              !.extracted = extract_bag_vertex(codec.inserted,
                                  codec.index, codec.graph_size)]
    /\ UNCHANGED dp_vars

CodecNext ==
    \/ CodecInsert
    \/ CodecRemove
    \/ CodecExtract

CodecSpec == CodecInit /\ [][CodecNext]_vars

-----------------------------------------------------------------------------
(* ParallelGraphHomomorphismCounter: process_node is called for every node  *)
(* in turn and stores what the @delayed node method returns, a Delayed      *)
(* object, in DP_table and in futures; dask.compute then runs the node      *)
(* tasks, which have no dependencies on each other, in any order.           *)
(* An entry of DP_table is [kind |-> "placeholder"] (the {} of the          *)
(* constructor), [kind |-> "Delayed", node |-> i] or                        *)
(* [kind |-> "list", cells |-> vector].                                     *)

Placeholder == [kind |-> "placeholder"]

Delayed(i) == [kind |-> "Delayed", node |-> i]

NoTask == [state |-> "unset", read |-> <<>>, value |-> <<>>]

\* the calls of ParallelGraphHomomorphismCounter tried
ParInit ==
    /\ impl = "parallel"
    /\ graph \in PatternGraphs
    /\ target_graph \in GraphsUpTo(MaxH)
    /\ density_threshold \in Thresholds
    /\ \/ colourful = FALSE /\ graph_clr = NoClr /\ target_clr = NoClr
       \/ colourful = TRUE /\ graph_clr = NoClr /\ target_clr = NoClr
    /\ tree_decomp = EmptyTD
    /\ dir_labelled_TD = NoTD
    /\ node_changes_dict = <<>>
    /\ DP_table = <<>>
    /\ pc = "entry"
    /\ cur = 0
    /\ result = 0
    /\ error = "none"
    /\ codec = NoCodec
    /\ futures = <<>>

\* ParallelGraphHomomorphismCounter.__init__ when graph.treewidth returns td
ParConstructWith(td) ==
    LET nice     == make_nice_tree_decomposition(td)
        labelled == label_nice_tree_decomposition(nice)
    IN  IF colourful /\ (graph_clr = NoClr \/ target_clr = NoClr)
        THEN Fail("MissingColouring") /\ UNCHANGED <<built, DP_table, cur, futures>>
        ELSE /\ tree_decomp' = td
             /\ IF ~is_valid_tree_decomposition(graph, td)
                THEN Fail("ValueError")
                     /\ UNCHANGED <<dir_labelled_TD, node_changes_dict, DP_table, cur,
                                    futures>>
                ELSE IF nice.N = 0
                THEN Fail("IndexError")
                     /\ UNCHANGED <<dir_labelled_TD, node_changes_dict, DP_table, cur,
                                    futures>>
                ELSE /\ dir_labelled_TD' = labelled
                     /\ IF node_changes_raises(labelled)
                        THEN Fail("ValueError")
                             /\ UNCHANGED <<node_changes_dict, DP_table, cur, futures>>
                        ELSE /\ node_changes_dict' = node_changes(labelled)
                             /\ DP_table' = [i \in 1..labelled.N |-> Placeholder]
                             /\ futures' = [i \in 1..labelled.N |-> NoTask]
                             /\ cur' = labelled.N - 1
                             /\ pc' = "submit"
                             /\ error' = error

ParConstruct ==
    /\ impl = "parallel"
    /\ pc = "entry"
    /\ \E td \in TreeDecomps(graph) : ParConstructWith(td)
    /\ UNCHANGED <<codec, inputs, result>>

\* process_node(node) for the next node of reversed(vertices()): the node
\* method is @delayed, so result is a Delayed object and nothing is computed
process_node ==
    /\ impl = "parallel"
    /\ pc = "submit"
    /\ DP_table' = [DP_table EXCEPT ![cur + 1] = Delayed(cur)]
    /\ futures' = [futures EXCEPT ![cur + 1].state = "pending"]
    /\ cur' = cur - 1
    /\ pc' = IF cur = 0 THEN "compute" ELSE "submit"
    /\ UNCHANGED <<codec, inputs, built, result, error>>

\* the table as the sequential node updates take it
ParCells(DP) == [n \in 1..Len(DP) |-> IF DP[n].kind = "list" THEN DP[n].cells ELSE <<>>]

\* the kinds of the entries DP_table[child] the task of node i reads
ChildKinds(i) ==
    [j \in 1..Len(dir_labelled_TD.children[i + 1]) |->
        DP_table[dir_labelled_TD.children[i + 1][j] + 1].kind]

\* _add_intro_node_parallel: len(child_DP_entry) of a Delayed object raises
\* TypeError; of the placeholder {} it is 0 and the vector stays zero
add_intro_node_parallel(i) ==
    LET kind == ChildKinds(i)[1]
    IN  IF kind = "Delayed" THEN Raise("TypeError")
        ELSE IF kind = "placeholder"
        THEN Ok(Zeros(Pow(target_graph.n, Cardinality(dir_labelled_TD.bag[i + 1]))))
        ELSE add_intro_node_best(dir_labelled_TD, i, ParCells(DP_table), graph,
                                 target_graph, node_changes_dict,
                                 <<NoClr, NoClr, FALSE, density_threshold>>)

\* _add_forget_node_parallel: child_DP_entry[extended_mapping] of a Delayed
\* object is a Delayed object again, and so is every sum of them; of the
\* placeholder {} it raises KeyError
add_forget_node_parallel(i) ==
    LET kind  == ChildKinds(i)[1]
        cells == Pow(target_graph.n, Cardinality(dir_labelled_TD.bag[i + 1]))
    IN  IF kind = "Delayed"
        THEN Ok([p \in 1..cells |-> IF target_graph.n = 0 THEN "0" ELSE "Delayed"])
        ELSE IF kind = "placeholder"
        THEN IF cells = 0 \/ target_graph.n = 0 THEN Ok(Zeros(cells)) ELSE Raise("KeyError")
        ELSE add_forget_node_best(dir_labelled_TD, i, ParCells(DP_table), graph,
                                  target_graph, node_changes_dict)

\* _add_join_node_parallel: zip over a Delayed object raises TypeError; over
\* two placeholders {} it is empty
add_join_node_parallel(i) ==
    LET kinds == ChildKinds(i)
    IN  IF Len(kinds) # 2 THEN Raise("ValueError")
        ELSE IF kinds[1] = "Delayed" \/ kinds[2] = "Delayed" THEN Raise("TypeError")
        ELSE IF kinds[1] = "placeholder" \/ kinds[2] = "placeholder" THEN Ok(<<>>)
        ELSE add_join_node_int_pre(dir_labelled_TD, i, ParCells(DP_table))

\* what the task of node i returns or raises
ParTask(i) ==
    LET label == dir_labelled_TD.label[i + 1]
    IN  CASE label = "intro"  -> add_intro_node_parallel(i)
          [] label = "forget" -> add_forget_node_parallel(i)
          [] label = "join"   -> add_join_node_parallel(i)
          [] OTHER            -> Ok(<<1>>)

\* dask.compute runs the task of one node that has not run yet; a task that
\* raises ends the call with its exception. When the last task has returned,
\* the print of [f.compute() for f in results] raises AttributeError, since
\* each result is a list, before DP_table[0][0] is returned.
RunTask ==
    /\ impl = "parallel"
    /\ pc = "compute"
    /\ \E i \in 0..(Len(futures) - 1) :
          /\ futures[i + 1].state = "pending"
          /\ LET r    == ParTask(i)
                 read == IF dir_labelled_TD.label[i + 1] \in {"intro", "forget", "join"}
                         THEN ChildKinds(i) ELSE <<>>
             IN  IF r.err # "none"
                 THEN /\ futures' = [futures EXCEPT ![i + 1] =
                                        [state |-> "raised", read |-> read, value |-> <<>>]]
                      /\ Fail(r.err)
                 ELSE /\ futures' = [futures EXCEPT ![i + 1] =
                                        [state |-> "finished", read |-> read,
                                         value |-> r.tbl]]
                      /\ IF \A n \in 1..Len(futures) :
                                n = i + 1 \/ futures[n].state = "finished"
                         THEN Fail("AttributeError")
                         ELSE UNCHANGED <<pc, error>>
    /\ UNCHANGED <<codec, inputs, built, DP_table, cur, result>>

ParNext ==
    \/ ParConstruct
    \/ process_node
    \/ RunTask

ParallelSpec == ParInit /\ [][ParNext]_vars

-----------------------------------------------------------------------------

(* What the count is meant to be.                                          *)

\* the maps phi : V(G) -> V(H) that send every edge of G to an edge of H
Homomorphisms(G, H) ==
    {phi \in [0..(G.n - 1) -> 0..(H.n - 1)] :
        \A e \in G.E : \A u, v \in e : u # v => has_edge(H, phi[u], phi[v])}

HomCount(G, H) == Cardinality(Homomorphisms(G, H))

\* the homomorphisms that send every vertex to a vertex of its colour
ColourPreserving(G, H, g_clr, t_clr) ==
    {phi \in Homomorphisms(G, H) :
        \A v \in 0..(G.n - 1) : t_clr[phi[v] + 1] = g_clr[v + 1]}

Finished == pc \in {"done", "error"}

IsStarToK4 == graph = StarK14 /\ target_graph = CompleteGraph(4)

-----------------------------------------------------------------------------
(* Properties.                                                             *)

\* C1: a value returned by count_homomorphisms_int_pre for G and H is the
\* number of maps V(G) -> V(H) that send every edge of G to an edge of H,
\* and the call returns a value for every G with at least one vertex.
C1_IntPreCountsHomomorphisms ==
    impl = "int_pre" =>
        /\ pc = "done" => result = HomCount(graph, target_graph)
        /\ graph.n > 0 => pc # "error"

C1_Witness ==
    /\ impl = "int_pre"
    /\ pc = "done"
    /\ graph = CompleteGraph(3)
    /\ target_graph = CompleteGraph(3)
    /\ result = 6

\* C2: from the star K_{1,4} to K_4, count_homomorphisms,
\* count_homomorphisms_int_pre and count_homomorphisms_best each return 324.
C2_StarToK4Is324 ==
    (IsStarToK4 /\ impl \in {"basic", "int_pre", "best"} /\ ~colourful /\ Finished)
        => (pc = "done" /\ result = 324)

C2_Witness ==
    /\ IsStarToK4
    /\ impl = "best"
    /\ ~colourful
    /\ pc = "error"
    /\ error = "NameError"
    /\ node_type = "join"

C4_EmptyPatternCountsOne ==
    (graph.n = 0 /\ ~colourful /\ Finished) => (pc = "done" /\ result = 1)

C4_Witness ==
    /\ graph.n = 0
    /\ impl = "int_pre"
    /\ pc = "error"
    /\ error = "IndexError"
    /\ dir_labelled_TD = NoTD

\* C5: for a target graph without vertices and a pattern graph with at
\* least one vertex, no step raises (no division or remainder by zero),
\* every processed intro node holds no non-zero cell, and the count is 0.
C5_EmptyTargetCountsZero ==
    (target_graph.n = 0 /\ graph.n >= 1 /\ impl \in {"int", "int_pre"}) =>
        /\ pc # "error"
        /\ pc = "done" => result = 0
        /\ \A i \in 1..Len(DP_table) :
              dir_labelled_TD.label[i] = "intro" =>
                  \A p \in 1..Len(DP_table[i]) : DP_table[i][p] = 0

C5_Witness ==
    /\ target_graph.n = 0
    /\ graph = CompleteGraph(3)
    /\ impl = "int_pre"
    /\ pc = "done"
    /\ result = 0

\* C6: for the pattern graph with one vertex the count is |V(H)|.
C6_SingleVertexCountsTargetOrder ==
    (graph = CompleteGraph(1) /\ impl \in {"basic", "int", "int_pre"}) =>
        /\ pc # "error"
        /\ pc = "done" => result = target_graph.n

C6_Witness ==
    /\ graph = CompleteGraph(1)
    /\ target_graph.n = 3
    /\ impl = "int_pre"
    /\ pc = "done"
    /\ result = 3

RightLengths ==
    /\ graph_clr # NoClr
    /\ target_clr # NoClr
    /\ Len(graph_clr) = graph.n
    /\ Len(target_clr) = target_graph.n

\* C7: with colourful set and colour lists of the right lengths, the count
\* is the number of homomorphisms that preserve the colours.
C7_ColourfulCountsColourPreserving ==
    (impl = "best" /\ colourful /\ RightLengths /\ Finished) =>
        /\ pc = "done"
        /\ result = Cardinality(ColourPreserving(graph, target_graph,
                                                 graph_clr, target_clr))

C7_Witness ==
    /\ impl = "best"
    /\ colourful
    /\ graph = CompleteGraph(3)
    /\ target_graph = CompleteGraph(3)
    /\ graph_clr = <<0, 1, 2>>
    /\ target_clr = <<0, 1, 2>>
    /\ pc = "error"
    /\ error = "IndexError"

OneColour ==
    /\ graph_clr = [j \in 1..graph.n |-> 0]
    /\ target_clr = [j \in 1..target_graph.n |-> 0]

\* C8: when both colour lists give every vertex one and the same colour,
\* the count with colourful set is the count without it.
C8_OneColourIsUncoloured ==
    (impl = "best" /\ colourful /\ OneColour /\ Finished) =>
        /\ pc = "done"
        /\ result = HomCount(graph, target_graph)

C8_Witness ==
    /\ impl = "best"
    /\ colourful
    /\ OneColour
    /\ graph = CompleteGraph(1)
    /\ target_graph.n = 2
    /\ pc = "error"
    /\ error = "IndexError"

ColoursMissing == colourful /\ (graph_clr = NoClr \/ target_clr = NoClr)

\* C9: with colourful set and a colour list not provided, the call fails
\* with MissingColouring before a tree decomposition is built or a DP
\* table cell is written, and returns no count.
C9_MissingColouringAtEntry ==
    (impl = "best" /\ ColoursMissing) =>
        /\ pc \in {"entry", "error"}
        /\ pc = "error" => error = "MissingColouring"
        /\ dir_labelled_TD = NoTD
        /\ node_changes_dict = <<>>
        /\ DP_table = <<>>

C9_Witness ==
    /\ impl = "best"
    /\ ColoursMissing
    /\ graph.n > 0
    /\ pc = "error"
    /\ error = "MissingColouring"

WrongLengths ==
    /\ graph_clr # NoClr
    /\ target_clr # NoClr
    /\ Len(graph_clr) # graph.n \/ Len(target_clr) # target_graph.n

\* C10: with colourful set and a colour list of the wrong length, the call
\* fails with MissingColouring and returns no count.
C10_WrongLengthIsMissingColouring ==
    (impl = "best" /\ colourful /\ WrongLengths /\ Finished) =>
        (pc = "error" /\ error = "MissingColouring")

C10_Witness ==
    /\ impl = "best"
    /\ colourful
    /\ graph = CompleteGraph(1)
    /\ target_graph = CompleteGraph(1)
    /\ graph_clr = <<0, 0>>
    /\ target_clr = <<0>>
    /\ pc = "done"
    /\ result = 1

\* the call of the state's counter rerun with density threshold t
RunWithThreshold(t) ==
    count_homomorphisms_best(dir_labelled_TD, node_changes_dict, graph, target_graph,
                             <<graph_clr, target_clr, colourful, t>>)

WithEdge(H, e) == [H EXCEPT !.E = @ \cup {e}]

\* count_homomorphisms_int_pre(graph, H2) on the state's decomposition
IntPreOn(H2) ==
    IntPreFrom(dir_labelled_TD, node_changes_dict, graph, H2)

\* C12: for every G, H and every H' that is H plus one extra edge on the
\* same vertex set, the count count_homomorphisms_int_pre returns for
\* (G, H') is at least the count it returns for (G, H).
C12_MonotoneInTargetEdges ==
    (impl = "int_pre" /\ pc = "done") =>
        /\ IntPreOn(target_graph).result = result
        /\ \A e \in Pairs(target_graph.n) \ target_graph.E :
              /\ IntPreOn(WithEdge(target_graph, e)).err = "none"
              /\ IntPreOn(WithEdge(target_graph, e)).result >= result

\* the triangle into the path 0 - 1 - 2: no homomorphism, and six once the
\* edge {0, 2} is added
C12_Witness ==
    /\ impl = "int_pre"
    /\ pc = "done"
    /\ graph = CompleteGraph(3)
    /\ target_graph = [n |-> 3, E |-> {{0, 1}, {1, 2}}]
    /\ result = 0
    /\ IntPreOn(WithEdge(target_graph, {0, 2})).result = 6

\* the permutations of the vertex labels 0 .. n-1
Perms(n) ==
    {p \in [0..(n - 1) -> 0..(n - 1)] : \A u, v \in 0..(n - 1) : p[u] = p[v] => u = v}

\* the graph g with vertex v renamed p[v]
Relabel(g, p) == [n |-> g.n, E |-> {{p[v] : v \in e} : e \in g.E}]

\* the tree decomposition td with vertex v renamed p[v] in every bag
RelabelTD(td, p) ==
    [bag |-> [j \in 1..Len(td.bag) |-> {p[v] : v \in td.bag[j]}], E |-> td.E]

\* the relabellings of the pattern graph with its tree decomposition
RelabelledPatterns ==
    {<<Relabel(graph, pi), RelabelTD(tree_decomp, pi)>> : pi \in Perms(graph.n)}

\* the relabellings of the target graph
RelabelledTargets == {Relabel(target_graph, sigma) : sigma \in Perms(target_graph.n)}

\* C13: for every permutation pi of the vertex labels of G and every
\* permutation sigma of the vertex labels of H, count_homomorphisms_int_pre
\* returns for the relabelled graphs (over the relabelled decomposition of
\* G) the count it returns for G and H.
C13_RelabellingInvariant ==
    (impl = "int_pre" /\ pc = "done") =>
        \A G2 \in RelabelledPatterns : \A H2 \in RelabelledTargets :
            LET call == count_homomorphisms_int_pre(G2[1], H2, G2[2])
            IN  call.err = "none" /\ call.result = result

\* the path 0 - 1 - 2 into a target with the one edge {0, 1}: relabelling
\* moves the middle vertex of the path and the isolated vertex of the target
C13_Witness ==
    /\ impl = "int_pre"
    /\ pc = "done"
    /\ graph = [n |-> 3, E |-> {{0, 1}, {1, 2}}]
    /\ target_graph = [n |-> 3, E |-> {{0, 1}}]
    /\ result = 2
    /\ Len(tree_decomp.bag) = 2
    /\ \E G2 \in RelabelledPatterns : \E H2 \in RelabelledTargets :
          /\ G2[1] = [n |-> 3, E |-> {{0, 1}, {0, 2}}]
          /\ H2 = [n |-> 3, E |-> {{1, 2}}]
          /\ count_homomorphisms_int_pre(G2[1], H2, G2[2]).result = 2

\* C14: for every base k >= 1, every mapping p >= 0, every position i >= 0
\* and every digit d with 0 <= d < k, removing position i from
\* add_vertex_into_mapping(d, p, i, k) gives p back.
C14_RemoveUndoesInsert ==
    codec.at = "removed" => codec.removed = codec.mapping

\* 17 = 122 in base 3; with digit 2 inserted at position 1 it is 1222 = 53
C14_Witness ==
    /\ codec.at = "removed"
    /\ codec.graph_size = 3
    /\ codec.mapping = 17
    /\ codec.index = 1
    /\ codec.new_vertex = 2
    /\ codec.inserted = 53
    /\ codec.removed = 17

\* C15: for every base k >= 1, every mapping p >= 0, every position i >= 0
\* and every digit d with 0 <= d < k, extract_bag_vertex reads d at position
\* i of add_vertex_into_mapping(d, p, i, k); the digit it reads at position
\* i of any m is (m / k^i) mod k.
C15_ExtractReadsInserted ==
    codec.at = "extracted" =>
        /\ codec.extracted = codec.new_vertex
        /\ \E q \in 0..codec.inserted :
              /\ q * Pow(codec.graph_size, codec.index) <= codec.inserted
              /\ codec.inserted < (q + 1) * Pow(codec.graph_size, codec.index)
              /\ codec.extracted = q % codec.graph_size

\* 7 = 13 in base 4; with digit 3 inserted at position 2 it is 313 = 55
C15_Witness ==
    /\ codec.at = "extracted"
    /\ codec.graph_size = 4
    /\ codec.mapping = 7
    /\ codec.index = 2
    /\ codec.new_vertex = 3
    /\ codec.inserted = 55
    /\ codec.extracted = 3

RECURSIVE SubtreeNodes(_, _)
\* the node i of the labelled decomposition td and its descendants
SubtreeNodes(td, i) ==
    {i} \cup UNION {SubtreeNodes(td, td.children[i + 1][j]) :
                       j \in 1..Len(td.children[i + 1])}

\* the pattern vertices that occur in the bags of the subtree of node i
SubtreeVertices(td, i) == UNION {td.bag[n + 1] : n \in SubtreeNodes(td, i)}

\* the partial homomorphism extensions of the assignment p of bag(i): the
\* images of the subtree's other vertices such that, with the bag's
\* vertices sent where p says, every edge of G inside the subtree goes to
\* an edge of H
Extensions(td, i, p) ==
    LET bag  == SetToSeq(td.bag[i + 1])
        S    == SubtreeVertices(td, i)
        k    == target_graph.n
        full(psi) == [v \in S |-> IF v \in td.bag[i + 1]
                                  THEN extract_bag_vertex(p, IndexOf(bag, v), k)
                                  ELSE psi[v]]
    IN  {psi \in [S \ td.bag[i + 1] -> 0..(k - 1)] :
            \A e \in graph.E : e \subseteq S =>
                \A u, v \in e : u # v => has_edge(target_graph, full(psi)[u], full(psi)[v])}

\* node index i has been processed by the bottom-up traversal
Processed(i) ==
    /\ i \in 0..(Len(DP_table) - 1)
    /\ \/ pc \in {"return", "done"}
       \/ pc \in {"loop", "error"} /\ i > cur

\* C16: once the traversal of count_homomorphisms_int_pre has processed a
\* node n, the table of n has a cell for every encoded assignment p of
\* bag(n), and the cell holds the number of maps from the pattern vertices
\* in the bags of n's subtree into V(H) that agree with p on bag(n) and
\* send every edge of G between those vertices to an edge of H.
C16_CellCountsExtensions ==
    impl = "int_pre" =>
        \A i \in 0..(Len(DP_table) - 1) : Processed(i) =>
            \A p \in 0..(Pow(target_graph.n, Cardinality(dir_labelled_TD.bag[i + 1])) - 1) :
                /\ p < Len(DP_table[i + 1])
                /\ DP_table[i + 1][p + 1] = Cardinality(Extensions(dir_labelled_TD, i, p))

\* the path on three vertices into K_3: a processed forget node with a
\* one-vertex bag whose subtree holds the whole path; each image of the bag
\* vertex has four extensions
C16_Witness ==
    /\ impl = "int_pre"
    /\ graph = [n |-> 3, E |-> {{0, 1}, {1, 2}}]
    /\ target_graph = CompleteGraph(3)
    /\ pc = "loop"
    /\ \E i \in 0..(Len(DP_table) - 1) :
          /\ Processed(i)
          /\ dir_labelled_TD.label[i + 1] = "forget"
          /\ Cardinality(dir_labelled_TD.bag[i + 1]) = 1
          /\ SubtreeVertices(dir_labelled_TD, i) = {0, 1, 2}
          /\ DP_table[i + 1] = <<4, 4, 4>>

\* the entry points whose tables are vectors indexed by encoded assignments
UncolouredVectorDP == impl \in {"int", "int_pre"} \/ (impl = "best" /\ ~colourful)

\* the number of encoded assignments of the bag of node i
Assignments(i) == Pow(target_graph.n, Cardinality(dir_labelled_TD.bag[i + 1]))

\* C17: in the uncoloured DP, the vector of every processed node n (leaf,
\* intro, forget or join) has exactly k^|bag(n)| cells, k = |V(H)|, and when
\* the loop reaches a join node it has two children with the node's bag
\* whose vectors have equal length.
C17_TableLength ==
    UncolouredVectorDP =>
        /\ \A i \in 0..(Len(DP_table) - 1) :
              Processed(i) => Len(DP_table[i + 1]) = Assignments(i)
        /\ (pc = "loop" /\ node_type = "join") =>
              LET same == SameBagChildren(dir_labelled_TD, cur)
              IN  /\ Len(same) = 2
                  /\ Len(DP_table[same[1] + 1]) = Len(DP_table[same[2] + 1])

\* K_{1,4} into K_4: a processed join node, its bag the centre of the star
\* and one leaf of it
C17_Witness ==
    /\ impl = "int_pre"
    /\ IsStarToK4
    /\ pc = "loop"
    /\ \E i \in 0..(Len(DP_table) - 1) :
          /\ Processed(i)
          /\ dir_labelled_TD.label[i + 1] = "join"
          /\ dir_labelled_TD.bag[i + 1] = {0, 4}
          /\ Len(DP_table[i + 1]) = 16
          /\ \A j \in 1..2 : Len(DP_table[dir_labelled_TD.children[i + 1][j] + 1]) = 16

\* the position of the introduced / forgotten vertex x of node i in the
\* sorted bag that holds it
IntroPosition(i) ==
    IndexOf(SetToSeq(dir_labelled_TD.bag[i + 1]), node_changes_dict[i])

\* H has an edge from t to the image under the child assignment m of every
\* neighbour of x in the child's bag
EdgeCheck(i, m, t) ==
    LET child_tuple == SetToSeq(dir_labelled_TD.bag[ChildIndex(dir_labelled_TD, i) + 1])
    IN  \A j \in 1..Len(child_tuple) :
            has_edge(graph, node_changes_dict[i], child_tuple[j]) =>
                has_edge(target_graph, t, extract_bag_vertex(m, j - 1, target_graph.n))

\* C18: at a processed intro node n of the uncoloured DP
\* (count_homomorphisms_int_pre, GraphHomomorphismCounter) that introduces x
\* at position i of bag(n), with child c, for every child assignment m and
\* every target vertex t: insert(m, i, 0) plus t times k^i is
\* insert(m, i, t), and the cell of n at that index is table[c][m] when H
\* has an edge from t to the image of every bag neighbour of x, else 0.
C18_IntroRule ==
    (impl = "int_pre" \/ (impl = "best" /\ ~colourful)) =>
        \A n \in 0..(Len(DP_table) - 1) :
            (Processed(n) /\ dir_labelled_TD.label[n + 1] = "intro") =>
                LET k     == target_graph.n
                    i     == IntroPosition(n)
                    child == DP_table[ChildIndex(dir_labelled_TD, n) + 1]
                IN  \A m \in 0..(Len(child) - 1) : \A t \in 0..(k - 1) :
                        LET p == add_vertex_into_mapping(t, m, i, k)
                        IN  /\ add_vertex_into_mapping(0, m, i, k) + t * Pow(k, i) = p
                            /\ p < Len(DP_table[n + 1])
                            /\ DP_table[n + 1][p + 1] =
                                   IF EdgeCheck(n, m, t) THEN child[m + 1] ELSE 0

\* the triangle into K_3 on GraphHomomorphismCounter: a processed intro
\* node that puts the middle vertex into a three-vertex bag; six cells of
\* the 27 are 1
C18_Witness ==
    /\ impl = "best"
    /\ ~colourful
    /\ graph = CompleteGraph(3)
    /\ target_graph = CompleteGraph(3)
    /\ pc = "loop"
    /\ \E n \in 0..(Len(DP_table) - 1) :
          /\ Processed(n)
          /\ dir_labelled_TD.label[n + 1] = "intro"
          /\ dir_labelled_TD.bag[n + 1] = {0, 1, 2}
          /\ IntroPosition(n) = 1
          /\ SumSeq(DP_table[n + 1]) = 6

\* the position of the forgotten vertex of node i in the child's sorted bag
ForgetPosition(i) ==
    IndexOf(SetToSeq(dir_labelled_TD.bag[ChildIndex(dir_labelled_TD, i) + 1]),
            node_changes_dict[i])

\* C19: at a processed forget node n of count_homomorphisms_int_pre or
\* GraphHomomorphismCounter that forgets the vertex at position j of the
\* child's bag, with child c, for every assignment p of bag(n) the cell
\* table[n][p] is the sum over all t in V(H) of table[c][insert(p, j, t)].
C19_ForgetRule ==
    impl \in {"int_pre", "best"} =>
        \A n \in 0..(Len(DP_table) - 1) :
            (Processed(n) /\ dir_labelled_TD.label[n + 1] = "forget") =>
                LET k     == target_graph.n
                    j     == ForgetPosition(n)
                    child == DP_table[ChildIndex(dir_labelled_TD, n) + 1]
                IN  \A p \in 0..(Assignments(n) - 1) :
                        /\ p < Len(DP_table[n + 1])
                        /\ \A t \in 0..(k - 1) :
                              add_vertex_into_mapping(t, p, j, k) < Len(child)
                        /\ DP_table[n + 1][p + 1] =
                               SumSeq([t \in 1..k |->
                                   child[add_vertex_into_mapping(t - 1, p, j, k) + 1]])

\* K_2 into K_3 on GraphHomomorphismCounter: a processed forget node that
\* forgets vertex 1 at position 1 of the child's bag {0, 1}
C19_Witness ==
    /\ impl = "best"
    /\ ~colourful
    /\ graph = CompleteGraph(2)
    /\ target_graph = CompleteGraph(3)
    /\ pc = "loop"
    /\ \E n \in 0..(Len(DP_table) - 1) :
          /\ Processed(n)
          /\ dir_labelled_TD.label[n + 1] = "forget"
          /\ dir_labelled_TD.bag[n + 1] = {0}
          /\ ForgetPosition(n) = 1
          /\ DP_table[n + 1] = <<2, 2, 2>>

\* the join rule at node n: two children with the node's bag, and the
\* node's vector is the cell-wise product of theirs, in either order
JoinRuleAt(n) ==
    LET same == SameBagChildren(dir_labelled_TD, n)
    IN  /\ Len(same) = 2
        /\ Len(DP_table[n + 1]) = Len(DP_table[same[1] + 1])
        /\ Len(DP_table[n + 1]) = Len(DP_table[same[2] + 1])
        /\ \A p \in 1..Len(DP_table[n + 1]) :
              DP_table[n + 1][p] = DP_table[same[1] + 1][p] * DP_table[same[2] + 1][p]
        /\ DP_table[n + 1] = ZipProduct(DP_table[same[2] + 1], DP_table[same[1] + 1])

\* the loop stopped with an exception at a join node
RaisedAtJoin ==
    /\ pc = "error"
    /\ dir_labelled_TD.built
    /\ cur \in 0..(dir_labelled_TD.N - 1)
    /\ node_type = "join"

\* C20: at a join node n with children l and r, count_homomorphisms_int_pre
\* and GraphHomomorphismCounter set table[n][p] = table[l][p] * table[r][p]
\* for every p, the same vector whichever child is taken as the left one.
C20_JoinRule ==
    impl \in {"int_pre", "best"} =>
        /\ ~RaisedAtJoin
        /\ \A n \in 0..(Len(DP_table) - 1) :
              (Processed(n) /\ dir_labelled_TD.label[n + 1] = "join") => JoinRuleAt(n)

\* C20 for count_homomorphisms_int_pre alone: every join node is processed
\* without an exception and its vector is the cell-wise product of the
\* vectors of its two children, in either order.
C20_IntPreJoinRule ==
    impl = "int_pre" =>
        /\ ~RaisedAtJoin
        /\ \A n \in 0..(Len(DP_table) - 1) :
              (Processed(n) /\ dir_labelled_TD.label[n + 1] = "join") => JoinRuleAt(n)

\* K_{1,4} into K_4 on GraphHomomorphismCounter: both children of the join
\* node hold their 16 cells, and the join node raises NameError
C20_Witness ==
    /\ impl = "best"
    /\ ~colourful
    /\ IsStarToK4
    /\ RaisedAtJoin
    /\ error = "NameError"
    /\ DP_table[cur + 1] = <<>>
    /\ \A j \in 1..2 :
          Len(DP_table[dir_labelled_TD.children[cur + 1][j] + 1]) = 16

\* K_{1,4} into K_4 on count_homomorphisms_int_pre: the processed join node
\* holds the products 3 * 3 and 0 * 0
C20_IntPreWitness ==
    /\ impl = "int_pre"
    /\ IsStarToK4
    /\ \E n \in 0..(Len(DP_table) - 1) :
          /\ Processed(n)
          /\ dir_labelled_TD.label[n + 1] = "join"
          /\ JoinRuleAt(n)
          /\ DP_table[n + 1][1] = 0
          /\ DP_table[n + 1][2] = 9

\* C21: in the labelled nice tree decomposition every child has a larger
\* breadth-first index than its parent, so when the loop of
\* count_homomorphisms_int_pre, which goes through the indices downwards,
\* stands at a node, every child of the node has been processed and its
\* table holds the child's whole vector.
C21_ChildrenProcessedFirst ==
    /\ dir_labelled_TD.built =>
          \A i \in 0..(dir_labelled_TD.N - 1) :
              \A j \in 1..Len(dir_labelled_TD.children[i + 1]) :
                  dir_labelled_TD.children[i + 1][j] > i
    /\ (impl = "int_pre" /\ pc = "loop") =>
          \A j \in 1..Len(dir_labelled_TD.children[cur + 1]) :
              LET c == dir_labelled_TD.children[cur + 1][j]
              IN  Processed(c) /\ Len(DP_table[c + 1]) = Assignments(c)

\* K_{1,4} into K_4: the loop stands at the join node 4 and its children 5
\* and 6 hold their 16 cells
C21_Witness ==
    /\ impl = "int_pre"
    /\ IsStarToK4
    /\ pc = "loop"
    /\ cur = 4
    /\ node_type = "join"
    /\ dir_labelled_TD.children[cur + 1] = <<5, 6>>
    /\ Len(DP_table[6]) = 16
    /\ Len(DP_table[7]) = 16
    /\ DP_table[5] = <<>>


\* the table DP with the entries of the children of node discarded
DiscardChildren(td, node, DP) ==
    [n \in 1..Len(DP) |->
        IF \E j \in 1..Len(td.children[node + 1]) : td.children[node + 1][j] = n - 1
        THEN <<>> ELSE DP[n]]

\* the loop of count_homomorphisms_int_pre in which the tables of a node's
\* children are discarded as soon as the node's table is written
RECURSIVE DiscardingLoop(_, _, _, _)
DiscardingLoop(r, node, td, c) ==
    IF node < 0 \/ r.err # "none" THEN r
    ELSE LET e == IntPreNode(td, node, r.tbl, c)
         IN  IF e.err # "none" THEN [r EXCEPT !.err = e.err]
             ELSE DiscardingLoop(
                      [r EXCEPT !.tbl = DiscardChildren(td, node,
                                            [r.tbl EXCEPT ![node + 1] = e.tbl])],
                      node - 1, td, c)

DiscardingRun ==
    DiscardingLoop(Ok([i \in 1..dir_labelled_TD.N |-> <<>>]), dir_labelled_TD.N - 1,
                   dir_labelled_TD,
                   [G |-> graph, H |-> target_graph, ncd |-> node_changes_dict])

\* the node update the loop is about to store, computed on the table from
\* which everything but the tables of the node's children is discarded
UpdateFromChildrenOnly ==
    IntPreNode(dir_labelled_TD, cur,
               [n \in 1..Len(DP_table) |->
                   IF \E j \in 1..Len(dir_labelled_TD.children[cur + 1]) :
                          dir_labelled_TD.children[cur + 1][j] = n - 1
                   THEN DP_table[n] ELSE <<>>],
               [G |-> graph, H |-> target_graph, ncd |-> node_changes_dict])

\* C22: in one call of count_homomorphisms_int_pre every table[n] is assigned
\* exactly once, by the step that processes node n (the loop visits each index
\* once, downwards, and a step changes no other entry); the step that
\* processes a node reads only the tables of the node's children; the return
\* reads only table[0]; so the run in which a child's table is discarded once
\* its parent's table is written returns the same count.
C22_TableWrittenOnceReadByParent ==
    [][impl = "int_pre" =>
          /\ (pc = "loop" /\ pc' # "error") =>
                /\ cur' = cur - 1
                /\ DP_table' = [DP_table EXCEPT ![cur + 1] = UpdateFromChildrenOnly.tbl]
                /\ UpdateFromChildrenOnly.err = "none"
          /\ (pc = "entry" /\ pc' = "loop") =>
                /\ cur' = Len(DP_table') - 1
                /\ \A n \in 1..Len(DP_table') : DP_table'[n] = <<>>
          /\ pc \notin {"loop", "entry"} => DP_table' = DP_table
          /\ pc' = "return" => cur' = -1
          /\ pc' = "done" =>
                /\ DiscardingRun.err = "none"
                /\ result' = DiscardingRun.tbl[1][1]
                /\ \A n \in 2..Len(DP_table) : DiscardingRun.tbl[n] = <<>>
    ]_vars

C22_Witness ==
    /\ impl = "int_pre" /\ IsStarToK4 /\ pc = "done" /\ result = 324
    /\ DiscardingRun.tbl[1] = <<324>>
    /\ Len(DP_table[5]) = 16 /\ DiscardingRun.tbl[5] = <<>>


\* C23: in count_homomorphisms_parallel, whenever the task of an intro,
\* forget or join node reads DP_table[child], the entry holds the child's
\* completely computed count vector: neither the placeholder of the
\* constructor nor an unevaluated Delayed object, under every schedule.
C23_ChildTableCompleteWhenRead ==
    impl = "parallel" =>
        \A i \in 1..Len(futures) :
            \A j \in 1..Len(futures[i].read) : futures[i].read[j] = "list"

\* the task of the root, a forget node, has read the Delayed object of its child
C23_Witness ==
    /\ impl = "parallel" /\ pc = "compute" /\ graph = CompleteGraph(1)
    /\ target_graph = CompleteGraph(2)
    /\ dir_labelled_TD.label[1] = "forget"
    /\ futures[1].state = "finished" /\ futures[1].read = <<"Delayed">>
    /\ DP_table[dir_labelled_TD.children[1][1] + 1] = Delayed(dir_labelled_TD.children[1][1])


\* the bag of node index i of the labelled nice tree decomposition
BagOf(i) == dir_labelled_TD.bag[i + 1]

\* the children of node index i, as a set
ChildrenOf(i) == Range(dir_labelled_TD.children[i + 1])

Parentless == {i \in 0..(dir_labelled_TD.N - 1) :
                  \A p \in 0..(dir_labelled_TD.N - 1) : i \notin ChildrenOf(p)}

NodesWith(nice, v) == {i \in 0..(nice.N - 1) : v \in nice.bag[i + 1]}

\* nice is a tree decomposition of the graph g
IsTreeDecomposition(g, nice) ==
    /\ \A e \in nice.E : e \subseteq 0..(nice.N - 1) /\ Cardinality(e) = 2
    /\ Cardinality(nice.E) = nice.N - 1
    /\ Connected(0..(nice.N - 1), nice.E)
    /\ UNION Range(nice.bag) = 0..(g.n - 1)
    /\ \A e \in g.E : \E i \in 1..nice.N : e \subseteq nice.bag[i]
    /\ \A v \in 0..(g.n - 1) :
          LET Nv == NodesWith(nice, v)
          IN  Nv # {} /\ Connected(Nv, {e \in nice.E : e \subseteq Nv})

\* the constructor has just labelled the nice tree decomposition: the loop
\* has not started, or node_changes has raised
Constructed ==
    /\ dir_labelled_TD.built
    /\ \/ pc = "loop" /\ cur = dir_labelled_TD.N - 1
       \/ pc = "error" /\ DP_table = <<>>

\* C26: the output of make_nice_tree_decomposition for a valid tree
\* decomposition of G is again a tree decomposition of G: it is a tree, the
\* union of its bags is V(G), every edge of G lies in some bag, and for
\* every vertex v of G the nodes whose bag has v form a non-empty connected
\* subtree.  The labelled decomposition the loop reads has the same nodes,
\* bags and edges.
C26_NiceIsTreeDecomposition ==
    Constructed =>
        LET nice == make_nice_tree_decomposition(tree_decomp)
        IN  /\ IsTreeDecomposition(graph, nice)
            /\ dir_labelled_TD.N = nice.N
            /\ dir_labelled_TD.bag = nice.bag
            /\ nice.E = UNION {{{i, c} : c \in ChildrenOf(i)} : i \in 0..(nice.N - 1)}

C26_Witness ==
    /\ Constructed /\ graph = CompleteGraph(3)
    /\ tree_decomp = [bag |-> <<{0, 1, 2}, {1}>>, E |-> {{0, 1}}]
    /\ LET nice == make_nice_tree_decomposition(tree_decomp)
       IN  nice.N = 7 /\ NodesWith(nice, 1) = 1..4


WellColoured ==
    /\ graph_clr # NoClr /\ target_clr # NoClr
    /\ Len(graph_clr) = graph.n /\ Len(target_clr) = target_graph.n

\* the loop of GraphHomomorphismCounter stands at an intro node whose update
\* writes mappings_count[mapping] with mapping >= len(mappings_count)
IntroWriteOutOfRange ==
    /\ impl = "best" /\ pc = "loop" /\ node_type = "intro"
    /\ colourful => ColourfulSetupRaises(BagOf(cur), graph_clr, target_clr) = "none"
    /\ IntroEntry.err = "IndexError"

\* the loop of GraphHomomorphismCounter stands at a forget node whose update
\* reads child_DP_entry[extended_mapping] with extended_mapping >=
\* len(child_DP_entry)
ForgetReadOutOfRange ==
    /\ impl = "best" /\ pc = "loop" /\ node_type = "forget"
    /\ ForgetEntry.err = "IndexError"

\* C29: in GraphHomomorphismCounter every index used to write a cell at an
\* intro node is below the length of that node's vector, and every index
\* used to read the child's vector at a forget node is below the length of
\* the child's vector, with colourful false and with colourful true.
C29_IndicesInRange == ~IntroWriteOutOfRange /\ ~ForgetReadOutOfRange

\* with colourful false the indices are in range
C29_UncolouredIndicesInRange ==
    ~colourful => ~IntroWriteOutOfRange /\ ~ForgetReadOutOfRange

C29_Witness == colourful /\ WellColoured /\ IntroWriteOutOfRange

C29_ForgetWitness == colourful /\ WellColoured /\ ForgetReadOutOfRange

C29_UncolouredWitness ==
    /\ ~colourful /\ impl = "best" /\ pc = "loop" /\ node_type = "forget"
    /\ ForgetEntry.err = "none" /\ Len(DP_table[dir_labelled_TD.children[cur + 1][1] + 1]) = 9


\* the tree decomposition td with the node at position j moved to position
\* p[j]: the same decomposition in another iteration order, for which
\* make_nice_tree_decomposition may pick another leaf as the root
ReorderTD(td, p) ==
    [bag |-> [j \in 1..Len(td.bag) |->
                 td.bag[(CHOOSE a \in 0..(Len(td.bag) - 1) : p[a] = j - 1) + 1]],
     E   |-> {{p[a] : a \in e} : e \in td.E}]

Reorderings(td) == {ReorderTD(td, p) : p \in Perms(Len(td.bag))}

\* the tree decomposition of g with the single bag V(g)
OneBagTD(g) == [bag |-> <<0..(g.n - 1)>>, E |-> {}]

\* C30: for fixed G and H the count returned does not depend on which valid
\* tree decomposition the producer returns, nor on which leaf
\* make_nice_tree_decomposition picks as the root: the count of a call equals
\* the count over the one-bag decomposition of G and the count over every
\* reordering of the decomposition used.
C30_CountIndependentOfDecomposition ==
    (impl = "int_pre" /\ pc = "done") =>
        \A td2 \in Reorderings(tree_decomp) \cup {OneBagTD(graph)} :
            LET r == count_homomorphisms_int_pre(graph, target_graph, td2)
            IN  r.err = "none" /\ r.result = result

\* the star over a reordering of its decomposition whose root is another leaf
C30_Witness ==
    /\ impl = "int_pre" /\ IsStarToK4 /\ pc = "done" /\ result = 324
    /\ \E td2 \in Reorderings(tree_decomp) :
          /\ label_nice_tree_decomposition(make_nice_tree_decomposition(td2)).bag
                # dir_labelled_TD.bag
          /\ count_homomorphisms_int_pre(graph, target_graph, td2).result = 324
    /\ count_homomorphisms_int_pre(graph, target_graph, OneBagTD(graph)).result = 324

=============================================================================
